---- MODULE Spec2Model ----
(***************************************************************************)
(* State-machine model of the Fitblocks Connect integration:               *)
(*   - FitblocksConnectClient (client.py): the session state                *)
(*     (_csrf_token, _logged_in) and the authenticated operations, one      *)
(*     step per await (login page GET, credentials POST, schedule-page      *)
(*     CSRF refresh, the operation's own endpoint);                         *)
(*   - FitblocksConnectCoordinator (coordinator.py): refresh cycles, the    *)
(*     detail fan-out under _detail_semaphore, the merge and the sticky     *)
(*     credits.                                                             *)
(* Upstream responses are inputs, drawn from small sets.                    *)
(***************************************************************************)
EXTENDS Integers, Sequences, FiniteSets, TLC

VARIABLES
    username,           \* FitblocksConnectConfig.username (client.user_email)
    csrf_token,         \* FitblocksConnectClient._csrf_token ("" models None)
    logged_in,          \* FitblocksConnectClient._logged_in
    calls,              \* the client coroutines in progress: call id -> call record
    invoked,            \* number of direct client invocations made so far
    sem_value,          \* FitblocksConnectCoordinator._detail_semaphore._value
    last_known_credits, \* FitblocksConnectCoordinator._last_known_credits
    cyc,                \* the refresh cycles in progress: slot -> cycle record
    data,               \* DataUpdateCoordinator.data, the published Schedule
    refreshes,          \* number of refresh cycles started so far
    clock,              \* dt_util.utcnow(), in hours
    last_collected,     \* history: the credits figure of the most recent cycle that collected one
    svc,                \* the service handlers: caller -> the handler run it made last
    shown               \* the render of a view that has just been made

clientVars == <<username, csrf_token, logged_in, calls, invoked>>
coordVars == <<sem_value, last_known_credits, cyc, data, refreshes, clock, last_collected>>
vars == <<username, csrf_token, logged_in, calls, invoked, sem_value,
          last_known_credits, cyc, data, refreshes, clock, last_collected, svc,
          shown>>

(***************************************************************************)
(* Bounds                                                                  *)
(***************************************************************************)
\* concurrent direct client calls (service actions)
MaxActs == 2
\* direct client invocations in one behaviour
MaxInvocations == 2
\* refresh cycles that may overlap (SpecFanout)
MaxSlots == 2
\* events of the widest schedule payload, hence detail tasks per cycle
MaxEvents == 3
\* refresh cycles in one behaviour
MaxRefreshes == 3
\* refresh cycles in one behaviour of the coordinator with its views
MaxViewCycles == 2
\* hours a render may lie after the coordinator's last utcnow()
MaxRenderDelay == 2
\* the last instant of the clock
MaxClock == 1

(***************************************************************************)
(* Program constants                                                       *)
(***************************************************************************)
MAX_CONCURRENT_EVENT_DETAIL_REQUESTS == 4

(***************************************************************************)
(* Error taxonomy (client.py:35-52)                                        *)
(***************************************************************************)
NoError == "none"
AuthError == "FitblocksConnectAuthError"
ConnError == "FitblocksConnectConnectionError"
SSLError == "FitblocksConnectSSLError"
ApiError == "FitblocksConnectApiError"
BaseError == "FitblocksConnectError"
\* an exception that is no FitblocksConnectError (ValueError from a JSON
\* decode, AttributeError, TypeError)
RawFault == "Exception"

\* isinstance(err, FitblocksConnectError)
IsFitblocksError(e) == e \in {AuthError, ConnError, SSLError, ApiError, BaseError}

(***************************************************************************)
(* Upstream responses                                                      *)
(***************************************************************************)
NoToken == ""
Tokens == {"tokA", "tokB"}

\* what aiohttp does with a request: a response ("ok"), or a transport failure
TransportFailures == {"cert", "ssl", "conn", "timeout"}

\* body codes of a JSON endpoint: an index (>= 1) into the sample payloads, or
NoBody == 0      \* no body read (a non-200 response)
BadJson == -1    \* a body json() cannot decode (ValueError, raw)
ReadFail == -2   \* the transport fails while the body is read
\* the transport failures that can follow the status line of a response
ReadFailures == {"ssl", "conn", "timeout"}

\* responses to the HTML pages (login page, credentials POST, schedule page);
\* body is the content of the csrf-token meta tag, NoToken when the page has none
HtmlResponses ==
    [tr : TransportFailures, status : {0}, body : {NoToken}]
    \cup [tr : {"ok"}, status : {302, 401, 403, 500}, body : {NoToken}]
    \cup [tr : {"ok"}, status : {200}, body : Tokens \cup {NoToken}]

\* responses of a JSON endpoint whose 200 bodies are drawn from `bodies`
JsonResponses(bodies) ==
    [tr : TransportFailures, status : {0}, body : {NoBody}]
    \cup [tr : {"ok"}, status : {401, 403, 500}, body : {NoBody}]
    \cup [tr : {"ok"}, status : {200}, body : bodies \cup {BadJson}]
    \cup [tr : ReadFailures, status : {200}, body : {ReadFail}]

(***************************************************************************)
(* Call ids: the direct client calls, then per cycle slot the schedule      *)
(* fetch and one detail task per event reference.                          *)
(***************************************************************************)
ActCalls == 1..MaxActs
Slots == 1..MaxSlots
SchedCall(c) == MaxActs + c
TaskCall(c, i) == MaxActs + MaxSlots + (c - 1) * MaxEvents + i
SchedCalls == {SchedCall(c) : c \in Slots}
TaskCalls == {TaskCall(c, i) : c \in Slots, i \in 1..MaxEvents}
CallIds == ActCalls \cup SchedCalls \cup TaskCalls
SlotOfSched(k) == k - MaxActs
SlotOfTask(k) == ((k - MaxActs - MaxSlots - 1) \div MaxEvents) + 1

Ops == {"schedule", "details", "enroll", "unenroll"}

\* the request each operation sends to its own endpoint
EndpointOf(op) ==
    CASE op = "schedule" -> "GET schedule/json"
      [] op = "details" -> "GET classTypeDetails"
      [] op = "enroll" -> "POST subscribeToScheduleItem"
      [] op = "unenroll" -> "POST unsubscribeFromScheduleItem"
      [] OTHER -> "none"

Endpoints == {EndpointOf(op) : op \in Ops}

(***************************************************************************)
(* A client call (one coroutine running an authenticated operation).       *)
(*   pc      where it is suspended: "sem_wait" (a detail task before       *)
(*           `async with self._detail_semaphore`), "login_get",            *)
(*           "login_post", "login_refresh" (the awaits of async_login),    *)
(*           "endpoint" (the await of the operation's own request), "done" *)
(*   err/res the exception raised, or the body returned                    *)
(*   hdr     the X-CSRF-TOKEN header of its endpoint request               *)
(* and, as history of the call: pre (the session was valid when it         *)
(* started), logins (runs of async_login), login ("none", "ok", "failed"), *)
(* reqs (the requests it sent, in order), st (the status its endpoint      *)
(* answered, 0 when none), pst (the status the credentials POST answered), *)
(* rf (the schedule page of the CSRF refresh: "served" a token, or         *)
(* "nothing": another status, no token, a transport failure), page (the    *)
(* login page: "token" when it answered 200 with a token, "notoken" when   *)
(* it answered 200 without one, "status" for another status, "transport"), *)
(* got (the body a 200 answer of its endpoint carried), ret (what enroll   *)
(* or unenroll returned to its caller, "none" when it returned nothing),   *)
(* tf (the transport failure that ended the call, "none" when none did).   *)
(***************************************************************************)
FreeCall ==
    [op |-> "none", pc |-> "free", err |-> NoError, res |-> NoBody,
     hdr |-> NoToken, pre |-> FALSE, logins |-> 0, login |-> "none",
     reqs |-> <<>>, st |-> 0, pst |-> 0, rf |-> "none", page |-> "none",
     got |-> NoBody, ret |-> "none", tf |-> "none"]

Raise(call, e) == [call EXCEPT !.pc = "done", !.err = e]

\* variant: _request without TimeoutError in its last except clause
RequestErrorTimeoutLeaks(tr) ==
    CASE tr = "cert" -> SSLError
      [] tr = "ssl" -> SSLError
      [] tr = "conn" -> ConnError
      [] tr = "timeout" -> RawFault
      [] OTHER -> NoError

\* _request's except clauses: the error a transport failure is re-raised as
RequestError(tr) ==
    CASE tr = "cert" -> SSLError
      [] tr = "ssl" -> SSLError
      [] tr = "conn" -> ConnError
      [] tr = "timeout" -> ConnError
      [] OTHER -> NoError

\* a request of the call fails in the transport: _request re-raises
TransportFailed(call, tr) == Raise([call EXCEPT !.tf = tr], RequestError(tr))

\* _ensure_csrf_header raises when no token is stored
CsrfHeaderRaises(tok) == tok = NoToken

\* headers = self._ensure_csrf_header(); async with self._request(...)
SendEndpoint(call, tok) ==
    IF CsrfHeaderRaises(tok)
    THEN Raise(call, BaseError)
    ELSE [call EXCEPT !.pc = "endpoint", !.hdr = tok,
                      !.reqs = Append(@, EndpointOf(call.op))]

\* variant: the guard reads `or` where the code reads `and`
SessionValidEither(li, tok) == li \/ tok # NoToken

\* variant: the guard reads the token alone
SessionValidTokenOnly(li, tok) == tok # NoToken

\* _ensure_logged_in: `if self._logged_in and self._csrf_token: return`
SessionValid(li, tok) == li /\ tok # NoToken

\* async_login up to its first await: GET the login page
BeginLogin(call) ==
    [call EXCEPT !.pc = "login_get", !.logins = @ + 1,
                 !.reqs = Append(@, "GET login")]

\* an authenticated operation up to its first await
StartCall(op, li, tok) ==
    LET c0 == [FreeCall EXCEPT !.op = op, !.pre = (li = TRUE /\ tok # "")]
    IN  IF SessionValid(li, tok) THEN SendEndpoint(c0, tok) ELSE BeginLogin(c0)

\* async_login, the login page answered: lines 171-200
OnLoginPage(call, r, tok) ==
    LET seen == [call EXCEPT !.page = IF r.tr # "ok" THEN "transport"
                                      ELSE IF r.status # 200 THEN "status"
                                      ELSE IF r.body \in Tokens THEN "token"
                                      ELSE "notoken"]
    IN
    IF r.tr # "ok"
    THEN [c |-> TransportFailed([seen EXCEPT !.login = "failed"], r.tr), tok |-> tok]
    ELSE IF r.status # 200 \/ r.body = NoToken
    THEN [c |-> Raise([seen EXCEPT !.login = "failed"], BaseError), tok |-> tok]
    ELSE [c |-> [seen EXCEPT !.pc = "login_post", !.reqs = Append(@, "POST login")],
          tok |-> r.body]

\* the credentials POST is accepted
PostAccepted(status) == status \in {200, 302}

\* variant: only a 401 answer to the credentials POST is an auth failure
OnLoginPostOnly401(call, r) ==
    IF r.tr # "ok"
    THEN TransportFailed([call EXCEPT !.login = "failed"], r.tr)
    ELSE IF ~PostAccepted(r.status)
    THEN Raise([call EXCEPT !.login = "failed", !.pst = r.status],
               IF r.status = 401 THEN AuthError ELSE BaseError)
    ELSE [call EXCEPT !.pc = "login_refresh", !.pst = r.status,
                      !.reqs = Append(@, "GET schedule")]

\* async_login, the credentials POST answered: lines 200-210
OnLoginPost(call, r) ==
    IF r.tr # "ok"
    THEN TransportFailed([call EXCEPT !.login = "failed"], r.tr)
    ELSE IF ~PostAccepted(r.status)
    THEN Raise([call EXCEPT !.login = "failed", !.pst = r.status],
               IF r.status \in {401, 403} THEN AuthError ELSE BaseError)
    ELSE [call EXCEPT !.pc = "login_refresh", !.pst = r.status,
                      !.reqs = Append(@, "GET schedule")]

\* variant: the refresh stores what the page holds, without `if csrf:`
RefreshedTokenBlind(r, tok) ==
    IF r.tr = "ok" /\ r.status = 200 THEN r.body ELSE tok

\* _async_refresh_csrf_from_schedule, the schedule page answered: the token
\* stored afterwards (a transport failure is a FitblocksConnectError, which
\* async_login swallows)
RefreshedToken(r, tok) ==
    IF r.tr = "ok" /\ r.status = 200 /\ r.body # NoToken THEN r.body ELSE tok

\* variant: async_login without the try/except around the refresh, so that a
\* transport failure of the schedule page leaves async_login
OnLoginRefreshStrict(call, r, tok) ==
    IF r.tr # "ok"
    THEN [c |-> TransportFailed([call EXCEPT !.login = "failed", !.rf = "nothing"], r.tr),
          tok |-> tok, li |-> FALSE]
    ELSE [c |-> SendEndpoint([call EXCEPT !.login = "ok",
                                          !.rf = IF r.status = 200 /\ r.body \in Tokens
                                                 THEN "served" ELSE "nothing"],
                             IF r.status = 200 /\ r.body # NoToken THEN r.body ELSE tok),
          tok |-> IF r.status = 200 /\ r.body # NoToken THEN r.body ELSE tok,
          li |-> TRUE]

\* variant: `self._logged_in = True` inside the try, after the refresh, so
\* that a refresh that raised leaves the flag as it was
OnLoginRefreshInsideTry(call, r, tok) ==
    LET t1 == RefreshedToken(r, tok)
        served == r.tr = "ok" /\ r.status = 200 /\ r.body \in Tokens
    IN  [c |-> SendEndpoint([call EXCEPT !.login = "ok",
                                         !.rf = IF served THEN "served" ELSE "nothing"], t1),
         tok |-> t1, li |-> r.tr = "ok"]

\* async_login after the refresh (self._logged_in = True), then the rest of
\* the operation up to the await of its own request
OnLoginRefresh(call, r, tok) ==
    LET t1 == RefreshedToken(r, tok)
        served == r.tr = "ok" /\ r.status = 200 /\ r.body \in Tokens
    IN  [c |-> SendEndpoint([call EXCEPT !.login = "ok",
                                         !.rf = IF served THEN "served" ELSE "nothing"], t1),
         tok |-> t1, li |-> TRUE]

\* variant: a 403 is taken for an auth failure, as the login POST takes it
StatusErrorForbiddenAsAuth(status) ==
    IF status \in {401, 403} THEN AuthError
    ELSE IF status # 200 THEN ApiError
    ELSE NoError

\* the status handling of the four operations: 401, then any other non-200
StatusError(status) ==
    IF status = 401 THEN AuthError
    ELSE IF status # 200 THEN ApiError
    ELSE NoError

(***************************************************************************)
(* JSON values of the upstream payloads. A dict key is a record field; an  *)
(* absent key has the value Absent.                                        *)
(***************************************************************************)
Absent == [t |-> "absent", n |-> 0, s |-> ""]
JNull == [t |-> "null", n |-> 0, s |-> ""]
JInt(k) == [t |-> "int", n |-> k, s |-> ""]
JStr(x) == [t |-> "str", n |-> 0, s |-> x]
JBool(b) == [t |-> "bool", n |-> IF b THEN 1 ELSE 0, s |-> ""]

\* Python truthiness
Truthy(v) ==
    CASE v.t = "int" -> v.n # 0
      [] v.t = "bool" -> v.n = 1
      [] v.t = "str" -> v.s # ""
      [] OTHER -> FALSE

\* isinstance(v, int): a bool is an int
IsInt(v) == v.t \in {"int", "bool"}

\* the bodies subscribeToScheduleItem and unsubscribeFromScheduleItem answer
\* with: 1 {"status": "ok"}, 2 {} (no status), 3 {"status": ""}, 4 a list
ActBodies == 1..4
ActBody(b) ==
    CASE b = 1 -> [isdict |-> TRUE, status |-> JStr("ok")]
      [] b = 2 -> [isdict |-> TRUE, status |-> Absent]
      [] b = 3 -> [isdict |-> TRUE, status |-> JStr("")]
      [] OTHER -> [isdict |-> FALSE, status |-> Absent]

\* async_enroll after resp.json(): the status when the body is a dict with a
\* truthy one, else "success"
async_enroll(b) ==
    IF ActBody(b).isdict /\ Truthy(ActBody(b).status) THEN ActBody(b).status.s
    ELSE "success"

\* async_unenroll after resp.json(): True
async_unenroll(b) == "True"

\* what an operation returns besides the body kept in res
ReturnOf(op, b) ==
    CASE op = "enroll" -> async_enroll(b)
      [] op = "unenroll" -> async_unenroll(b)
      [] OTHER -> "none"

\* variant: a request that failed is sent once more
OnEndpointRetry(call, r) ==
    IF (r.tr # "ok" \/ StatusError(r.status) # NoError)
          /\ Len(call.reqs) > 0 /\ call.reqs[Len(call.reqs)] = EndpointOf(call.op)
          /\ (Len(call.reqs) = 1 \/ call.reqs[Len(call.reqs) - 1] # EndpointOf(call.op))
    THEN [call EXCEPT !.reqs = Append(@, EndpointOf(call.op))]
    ELSE IF r.tr # "ok" /\ r.body # ReadFail THEN TransportFailed(call, r.tr)
    ELSE IF StatusError(r.status) # NoError
    THEN Raise([call EXCEPT !.st = r.status], StatusError(r.status))
    ELSE IF r.body = ReadFail
    THEN TransportFailed([call EXCEPT !.st = r.status, !.got = r.body], r.tr)
    ELSE IF r.body = BadJson
    THEN Raise([call EXCEPT !.st = r.status, !.got = r.body], RawFault)
    ELSE [call EXCEPT !.pc = "done", !.res = r.body, !.st = r.status,
                      !.got = r.body, !.ret = ReturnOf(call.op, r.body)]

\* the operation's own request answered
OnEndpoint(call, r) ==
    IF r.tr # "ok" /\ r.body # ReadFail THEN TransportFailed(call, r.tr)
    ELSE IF StatusError(r.status) # NoError
    THEN Raise([call EXCEPT !.st = r.status], StatusError(r.status))
    ELSE IF r.body = ReadFail
    THEN TransportFailed([call EXCEPT !.st = r.status, !.got = r.body], r.tr)
    ELSE IF r.body = BadJson
    THEN Raise([call EXCEPT !.st = r.status, !.got = r.body], RawFault)
    ELSE [call EXCEPT !.pc = "done", !.res = r.body, !.st = r.status,
                      !.got = r.body, !.ret = ReturnOf(call.op, r.body)]

\* str.strip() and str.lower() on the sample strings
Strip(x) ==
    CASE x = " " -> ""
      [] x = " Ann " -> "Ann"
      [] x = "Lee " -> "Lee"
      [] x = " Coach " -> "Coach"
      [] OTHER -> x

Lower(x) ==
    CASE x = "Ann@Gym.nl" -> "ann@gym.nl"
      [] x = "BOB@GYM.NL" -> "bob@gym.nl"
      [] x = "Zed@Gym.nl" -> "zed@gym.nl"
      [] OTHER -> x

(***************************************************************************)
(* Datetime strings and the normalizer (util.py). A datetime string is its *)
(* shape ("iso": ISO 8601, "space": YYYY-MM-DD HH:MM:SS, "junk": neither,  *)
(* "": the empty string), the wall-clock hour it shows and its zone offset *)
(* (NoZone when it shows none). Instants are hours, in UTC.                *)
(***************************************************************************)
NoZone == -99
NoneDt == -1000
\* dt_util.DEFAULT_TIME_ZONE, as an offset from UTC
LocalOffset == 1

DtStr(shape, wall, zone) == [t |-> "str", shape |-> shape, wall |-> wall, zone |-> zone]
DtAbsent == [t |-> "absent", shape |-> "", wall |-> 0, zone |-> NoZone]
\* a start that is a number, not a string
DtNumber == [t |-> "int", shape |-> "", wall |-> 5, zone |-> NoZone]

DtTruthy(d) == (d.t = "str" /\ d.shape # "") \/ (d.t = "int" /\ d.wall # 0)

\* parse_fitblocks_datetime: None when neither parser accepts the string; a
\* value without zone is taken in the host's zone; the result is UTC
parse_fitblocks_datetime(d) ==
    IF d.shape \notin {"iso", "space"} THEN NoneDt
    ELSE IF d.zone = NoZone THEN d.wall - LocalOffset
    ELSE d.wall - d.zone

(***************************************************************************)
(* Schedule events, schedule bodies and class-type-detail payloads         *)
(***************************************************************************)
\* an event as schedule/json returns it: no enrichment field is set
RawEvent(eid, sub, start, end) ==
    [isdict |-> TRUE, subscribed |-> sub, classTypeId |-> JStr("ct"),
     eventId |-> JInt(eid), id |-> Absent, start |-> start, end |-> end,
     description |-> Absent, credits_remaining |-> Absent,
     total_possible_registrations |-> Absent, total_registrations |-> Absent,
     total_users_on_waiting_list |-> Absent, is_full |-> Absent,
     scheduleRegistrationId |-> Absent, participants |-> <<>>,
     user_first_name |-> Absent]

\* an entry of the events list that is no dict
NonDictItem == [RawEvent(0, Absent, DtAbsent, DtAbsent) EXCEPT !.isdict = FALSE]

EventsList(items) == [kind |-> "list", items |-> items]
EventsOther == [kind |-> "other", items |-> <<>>]

\* a schedule/json body: a JSON object with its events, or another JSON value
Body(events) ==
    [isdict |-> TRUE, events |-> events, user_first_name |-> Absent,
     last_known_credits |-> Absent]
NonObjectBody == [Body(EventsOther) EXCEPT !.isdict = FALSE]
\* no Schedule (coordinator.data is None)
NoData == [Body(EventsOther) EXCEPT !.isdict = FALSE, !.events.kind = "none"]

Utc(h) == DtStr("iso", h, 0)

\* dt_util.utcnow() of the first refresh, in hours
ClockStart == 10

\* the widest body: MaxEvents subscribed events
WideBody ==
    Body(EventsList([i \in 1..MaxEvents |-> RawEvent(i, JBool(TRUE), Utc(11 + i), Utc(12 + i))]))

ScheduleBodies ==
    << \* 1: two subscribed events, one already started
       Body(EventsList(<<RawEvent(1, JBool(TRUE), Utc(9), Utc(10)),
                         RawEvent(2, JBool(TRUE), DtStr("space", 13, NoZone), DtStr("space", 14, NoZone))>>)),
       \* 2: one subscribed event, an event whose subscribed is the number 1
       \* and a non-dict entry
       Body(EventsList(<<RawEvent(3, JInt(1), Utc(12), Utc(13)),
                         NonDictItem,
                         RawEvent(4, JBool(TRUE), Utc(14), Utc(15))>>)),
       \* 3: no subscribed event: one starting at the first instant of the
       \* clock, one later, two at the same instant in between
       Body(EventsList(<<RawEvent(5, JBool(FALSE), Utc(ClockStart), Utc(11)),
                         RawEvent(6, JBool(FALSE), DtStr("iso", 15, 1), DtStr("iso", 16, 1)),
                         RawEvent(7, JBool(FALSE), DtStr("iso", 13, NoZone), DtStr("iso", 14, NoZone)),
                         RawEvent(11, JBool(FALSE), Utc(12), Utc(13))>>)),
       \* 4: a body that is no JSON object
       NonObjectBody,
       \* 5: an object whose events is no list
       Body(EventsOther),
       \* 6: subscribed events without a complete tuple
       Body(EventsList(<<RawEvent(8, JBool(TRUE), DtStr("junk", 0, NoZone), Utc(13)),
                         [RawEvent(9, JBool(TRUE), Utc(12), Utc(13)) EXCEPT !.classTypeId = Absent],
                         RawEvent(0, JBool(TRUE), Utc(12), Utc(13)),
                         RawEvent(10, JBool(TRUE), DtNumber, Utc(13))>>)),
       \* 7: the widest body
       WideBody,
       \* 8: a subscribed event without a complete tuple before a free, upcoming one
       Body(EventsList(<<[RawEvent(12, JBool(TRUE), Utc(12), Utc(13)) EXCEPT !.classTypeId = Absent],
                         RawEvent(13, JBool(FALSE), Utc(14), Utc(15))>>)),
       \* 9: no subscribed event and nothing upcoming with a complete tuple
       Body(EventsList(<<RawEvent(14, JBool(FALSE), Utc(9), Utc(10)),
                         RawEvent(15, JBool(FALSE), DtStr("junk", 0, NoZone), Utc(15))>>)),
       \* 10: subscribed events with an unparseable end and without a start
       \* around a subscribed event with both
       Body(EventsList(<<RawEvent(20, JBool(TRUE), Utc(11), DtStr("junk", 0, NoZone)),
                         RawEvent(21, JBool(TRUE), Utc(12), Utc(13)),
                         RawEvent(22, JBool(TRUE), DtAbsent, Utc(15))>>)),
       \* 11: no subscribed event; events with an unparseable and with an
       \* empty start before an upcoming event with both
       Body(EventsList(<<RawEvent(23, JBool(FALSE), DtStr("junk", 0, NoZone), Utc(12)),
                         RawEvent(24, JBool(FALSE), DtStr("", 0, NoZone), Utc(13)),
                         RawEvent(25, JBool(FALSE), Utc(14), Utc(15))>>)) >>

RichBodies == (1..6) \cup {8, 9}
WideBodies == {7}

NoRoster == [kind |-> "absent", items |-> <<>>]
NullRoster == [kind |-> "null", items |-> <<>>]
Roster(items) == [kind |-> "list", items |-> items]
User(first, last, email, reg) ==
    [isdict |-> TRUE, first_name |-> first, surname |-> last, email |-> email,
     schedule_registration_id |-> reg]
NonDictUser == [User(Absent, Absent, Absent, Absent) EXCEPT !.isdict = FALSE]

EmptyPayload ==
    [isdict |-> TRUE, description |-> Absent, creditsRemaining |-> Absent,
     totalPossibleRegistrations |-> Absent, totalRegistrations |-> Absent,
     totalUsersOnWaitingList |-> Absent, isFull |-> Absent,
     scheduleRegistrationId |-> Absent, signedUpUsers |-> NoRoster,
     athletes |-> NoRoster]

DetailPayloads ==
    << \* 1: a full payload
       [EmptyPayload EXCEPT
          !.description = JStr("WOD"), !.creditsRemaining = JInt(2),
          !.totalPossibleRegistrations = JInt(12), !.totalRegistrations = JInt(7),
          !.totalUsersOnWaitingList = JInt(0), !.isFull = JBool(FALSE),
          !.scheduleRegistrationId = JStr("r1"),
          !.signedUpUsers = Roster(<<User(JStr("Bob"), JStr("Lee "), Absent, JStr("r0")),
                                     NonDictUser,
                                     User(JStr(" Ann "), JNull, Absent, JStr("r1")),
                                     User(JStr(" "), Absent, Absent, JNull)>>),
          !.athletes = Roster(<<User(JStr("Bob"), Absent, JStr("BOB@GYM.NL"), Absent),
                                User(JStr("Ann"), Absent, JStr("Ann@Gym.nl"), Absent)>>)],
       \* 2: no credits left
       [EmptyPayload EXCEPT !.creditsRemaining = JInt(0)],
       \* 3: no credits figure
       [EmptyPayload EXCEPT !.description = JStr("Run"), !.creditsRemaining = JNull],
       \* 4: a roster that is null
       [EmptyPayload EXCEPT !.creditsRemaining = JInt(1), !.signedUpUsers = NullRoster],
       \* 5: a body that is no JSON object
       [EmptyPayload EXCEPT !.isdict = FALSE],
       \* 6: one credit
       [EmptyPayload EXCEPT !.creditsRemaining = JInt(1)],
       \* 7: a registration id that no roster entry has
       [EmptyPayload EXCEPT
          !.scheduleRegistrationId = JStr("r9"),
          !.signedUpUsers = Roster(<<User(JStr("Bob"), JStr("Lee "), Absent, JStr("r0"))>>),
          !.athletes = Roster(<<User(JNull, Absent, JStr("Ann@Gym.nl"), Absent),
                                User(JStr("Ann"), Absent, JStr("ann@gym.nl"), Absent)>>)] >>

RichPayloads == 1..5
PlainPayloads == {6}

(***************************************************************************)
(* Enrichment selection (coordinator.py)                                   *)
(***************************************************************************)
\* is_user_enrolled: event.get("subscribed") is True
is_user_enrolled(ev) == ev.subscribed = JBool(TRUE)

\* the enrolment tests of the views, each on one item of the events list:
\* `if not isinstance(item, dict): continue`, `if not item.get("subscribed"):
\* continue`
\* calendar: _build_events
calendar_shows_enrolled(ev) == ev.isdict /\ Truthy(ev.subscribed)
\* sensor: the lesson sensors created by async_setup_entry
lesson_sensor_enrolled(ev) == ev.isdict /\ Truthy(ev.subscribed)
\* sensor: the credits sensor's native_value
credits_sensor_enrolled(ev) == ev.isdict /\ Truthy(ev.subscribed)
\* sensor: the enrolled-count sensor's native_value
enrolled_count_enrolled(ev) == ev.isdict /\ Truthy(ev.subscribed)

\* _prepare_event_detail_call: the start instant of the detail call, NoneDt
\* when the event has no complete tuple
PreparedStartIgnoresEnd(ev) ==
    LET event_id == IF Truthy(ev.eventId) THEN ev.eventId ELSE ev.id
    IN  IF ~Truthy(ev.classTypeId) \/ ~Truthy(event_id)
           \/ ~DtTruthy(ev.start) \/ ~DtTruthy(ev.end)
        THEN NoneDt
        ELSE IF ev.start.t # "str" \/ ev.end.t # "str" THEN NoneDt
        ELSE parse_fitblocks_datetime(ev.start)

PreparedStart(ev) ==
    LET event_id == IF Truthy(ev.eventId) THEN ev.eventId ELSE ev.id
    IN  IF ~Truthy(ev.classTypeId) \/ ~Truthy(event_id)
           \/ ~DtTruthy(ev.start) \/ ~DtTruthy(ev.end)
        THEN NoneDt
        ELSE IF ev.start.t # "str" \/ ev.end.t # "str" THEN NoneDt
        ELSE IF parse_fitblocks_datetime(ev.start) = NoneDt
                \/ parse_fitblocks_datetime(ev.end) = NoneDt
        THEN NoneDt
        ELSE parse_fitblocks_datetime(ev.start)

IsPrepared(ev) == PreparedStart(ev) # NoneDt

\* variant: a later event replaces the kept one when their starts are equal
RECURSIVE FallbackFromLastOnTies(_, _, _, _)
FallbackFromLastOnTies(items, now, i, best) ==
    IF i > Len(items) THEN best
    ELSE LET ev == items[i]
             take == /\ ev.isdict
                     /\ IsPrepared(ev)
                     /\ ~(PreparedStart(ev) < now)
                     /\ (best = 0 \/ PreparedStart(ev) <= PreparedStart(items[best]))
         IN  FallbackFromLastOnTies(items, now, i + 1, IF take THEN i ELSE best)

\* _select_fallback_event: the loop from item i on; best is the index kept so
\* far (0: none)
RECURSIVE FallbackFrom(_, _, _, _)
FallbackFrom(items, now, i, best) ==
    IF i > Len(items) THEN best
    ELSE LET ev == items[i]
             take == /\ ev.isdict
                     /\ IsPrepared(ev)
                     /\ ~(PreparedStart(ev) < now)
                     /\ (best = 0 \/ PreparedStart(ev) < PreparedStart(items[best]))
         IN  FallbackFrom(items, now, i + 1, IF take THEN i ELSE best)

_select_fallback_event(items, now) == FallbackFrom(items, now, 1, 0)

\* variant: the loop stops at the first enrolled, prepared event
RECURSIVE EnrolledRefsFirstOnly(_, _)
EnrolledRefsFirstOnly(items, i) ==
    IF i > Len(items) THEN <<>>
    ELSE IF items[i].isdict /\ is_user_enrolled(items[i]) /\ IsPrepared(items[i])
    THEN <<i>>
    ELSE EnrolledRefsFirstOnly(items, i + 1)

\* the first loop of _build_detail_tasks: the enrolled, prepared events
RECURSIVE EnrolledRefs(_, _)
EnrolledRefs(items, i) ==
    IF i > Len(items) THEN <<>>
    ELSE IF items[i].isdict /\ is_user_enrolled(items[i]) /\ IsPrepared(items[i])
    THEN <<i>> \o EnrolledRefs(items, i + 1)
    ELSE EnrolledRefs(items, i + 1)

\* _build_detail_tasks: event_refs, as indices into raw_events
_build_detail_tasks(items, now) ==
    LET enrolled == EnrolledRefs(items, 1)
        fallback == _select_fallback_event(items, now)
    IN  IF enrolled # <<>> THEN enrolled
        ELSE IF fallback = 0 THEN <<>>
        ELSE <<fallback>>

(***************************************************************************)
(* Merge (coordinator.py:244-330)                                          *)
(***************************************************************************)
\* a result of asyncio.gather(..., return_exceptions=True)
Result(err, res) == [err |-> err, res |-> res]

\* the participants loop: display names of the dict entries of the roster
RECURSIVE Participants(_, _)
Participants(users, i) ==
    IF i > Len(users) THEN <<>>
    ELSE LET u == users[i]
             first == Strip(IF Truthy(u.first_name) THEN u.first_name.s ELSE "")
             last == Strip(IF Truthy(u.surname) THEN u.surname.s ELSE "")
             full == IF first = "" THEN last
                     ELSE IF last = "" THEN first
                     ELSE first \o " " \o last
         IN  IF u.isdict /\ full # ""
             THEN <<full>> \o Participants(users, i + 1)
             ELSE Participants(users, i + 1)

\* _extract_user_first_name: the first athlete whose email matches decides
RECURSIVE _extract_user_first_name(_, _, _)
_extract_user_first_name(athletes, user_email, i) ==
    IF i > Len(athletes) THEN JNull
    ELSE LET a == athletes[i]
             email == Lower(IF Truthy(a.email) THEN a.email.s ELSE "")
         IN  IF a.isdict /\ email = user_email
             THEN IF Truthy(a.first_name) THEN a.first_name ELSE JNull
             ELSE _extract_user_first_name(athletes, user_email, i + 1)

\* _extract_user_first_name_by_registration_id: the first entry with that
\* registration id decides
RECURSIVE _extract_user_first_name_by_registration_id(_, _, _)
_extract_user_first_name_by_registration_id(users, reg, i) ==
    IF i > Len(users) THEN JNull
    ELSE LET u == users[i]
         IN  IF u.isdict /\ u.schedule_registration_id = reg
             THEN IF u.first_name.t = "str" /\ u.first_name.s # ""
                  THEN u.first_name ELSE JNull
             ELSE _extract_user_first_name_by_registration_id(users, reg, i + 1)

\* the loop body of _merge_event_details raises (iterating a roster that is
\* no list)
MergeRaises(p, user_email) ==
    \/ p.signedUpUsers.kind = "null"
    \/ (user_email # "" /\ p.athletes.kind = "null")

\* `for src, dest in mapping.items()`: item[dest] = result[src] when present
Mapped(old, new) == IF new.t # "absent" THEN new ELSE old

\* variant: the registration id is tried whenever the email found no name
MergeOneFallsBack(ev, p, user_email) ==
    LET names == Participants(p.signedUpUsers.items, 1)
        by_email == IF user_email # ""
                    THEN _extract_user_first_name(p.athletes.items, user_email, 1)
                    ELSE JNull
        mine == IF Truthy(by_email) THEN by_email
                ELSE IF Truthy(p.scheduleRegistrationId)
                THEN _extract_user_first_name_by_registration_id(
                         p.signedUpUsers.items, p.scheduleRegistrationId, 1)
                ELSE JNull
    IN  [ev EXCEPT
           !.description = IF Truthy(p.description) THEN p.description ELSE @,
           !.credits_remaining = Mapped(@, p.creditsRemaining),
           !.total_possible_registrations = Mapped(@, p.totalPossibleRegistrations),
           !.total_registrations = Mapped(@, p.totalRegistrations),
           !.total_users_on_waiting_list = Mapped(@, p.totalUsersOnWaitingList),
           !.is_full = Mapped(@, p.isFull),
           !.scheduleRegistrationId =
               IF Truthy(p.scheduleRegistrationId) THEN p.scheduleRegistrationId ELSE @,
           !.participants = IF names # <<>> THEN names ELSE @,
           !.user_first_name = IF Truthy(mine) THEN mine ELSE @]

\* the loop body of _merge_event_details for a dict result p
MergeOne(ev, p, user_email) ==
    LET names == Participants(p.signedUpUsers.items, 1)
        mine == IF user_email # ""
                THEN _extract_user_first_name(p.athletes.items, user_email, 1)
                ELSE IF Truthy(p.scheduleRegistrationId)
                THEN _extract_user_first_name_by_registration_id(
                         p.signedUpUsers.items, p.scheduleRegistrationId, 1)
                ELSE JNull
    IN  [ev EXCEPT
           !.description = IF Truthy(p.description) THEN p.description ELSE @,
           !.credits_remaining = Mapped(@, p.creditsRemaining),
           !.total_possible_registrations = Mapped(@, p.totalPossibleRegistrations),
           !.total_registrations = Mapped(@, p.totalRegistrations),
           !.total_users_on_waiting_list = Mapped(@, p.totalUsersOnWaitingList),
           !.is_full = Mapped(@, p.isFull),
           !.scheduleRegistrationId =
               IF Truthy(p.scheduleRegistrationId) THEN p.scheduleRegistrationId ELSE @,
           !.participants = IF names # <<>> THEN names ELSE @,
           !.user_first_name = IF Truthy(mine) THEN mine ELSE @]

\* a result the merge loop skips: an exception, or a value that is no dict
Skipped(result) == result.err # NoError \/ ~DetailPayloads[result.res].isdict

\* _merge_event_details: zip(event_refs, results) from pair i on. m is the
\* state of the loop: the events, credits_values, raised.
RECURSIVE MergeFrom(_, _, _, _, _)
MergeFrom(m, refs, results, user_email, i) ==
    IF i > Len(refs) \/ i > Len(results) \/ m.raised THEN m
    ELSE IF Skipped(results[i])
    THEN MergeFrom(m, refs, results, user_email, i + 1)
    ELSE LET p == DetailPayloads[results[i].res]
             collected == IF p.creditsRemaining.t # "absent" /\ IsInt(p.creditsRemaining)
                          THEN Append(m.credits_values, p.creditsRemaining.n)
                          ELSE m.credits_values
         IN  IF MergeRaises(p, user_email)
             THEN [m EXCEPT !.raised = TRUE, !.credits_values = collected]
             ELSE MergeFrom([m EXCEPT !.items[refs[i]] = MergeOne(@, p, user_email),
                                      !.credits_values = collected],
                            refs, results, user_email, i + 1)

_merge_event_details(items, refs, results, user_email) ==
    MergeFrom([items |-> items, credits_values |-> <<>>, raised |-> FALSE],
              refs, results, user_email, 1)

\* variant: the scan returns after the first event, named or not
_store_user_first_name_first_event(d, items) ==
    IF items # <<>> /\ items[1].isdict /\ Truthy(items[1].user_first_name)
    THEN [d EXCEPT !.user_first_name = items[1].user_first_name]
    ELSE d

\* _store_user_first_name: the first event that carries a first name
RECURSIVE FirstNameFrom(_, _)
FirstNameFrom(items, i) ==
    IF i > Len(items) THEN Absent
    ELSE IF items[i].isdict /\ Truthy(items[i].user_first_name)
    THEN items[i].user_first_name
    ELSE FirstNameFrom(items, i + 1)

_store_user_first_name(d, items) ==
    LET first_name == FirstNameFrom(items, 1)
    IN  IF first_name.t # "absent" THEN [d EXCEPT !.user_first_name = first_name] ELSE d

\* max(credits_values)
RECURSIVE MaxOf(_)
MaxOf(xs) ==
    IF Len(xs) = 1 THEN xs[1]
    ELSE LET rest == MaxOf(Tail(xs)) IN IF xs[1] >= rest THEN xs[1] ELSE rest

\* variant: the figure carried forward is used up by the cycle that shows it
_update_last_known_credits_once(d, credits_values, known) ==
    IF credits_values # <<>>
    THEN [d |-> [d EXCEPT !.last_known_credits = JInt(MaxOf(credits_values))],
          known |-> JInt(MaxOf(credits_values))]
    ELSE IF known # JNull
    THEN [d |-> [d EXCEPT !.last_known_credits = known], known |-> JNull]
    ELSE [d |-> d, known |-> known]

\* _update_last_known_credits: the Schedule and self._last_known_credits
\* afterwards
_update_last_known_credits(d, credits_values, known) ==
    IF credits_values # <<>>
    THEN [d |-> [d EXCEPT !.last_known_credits = JInt(MaxOf(credits_values))],
          known |-> JInt(MaxOf(credits_values))]
    ELSE IF known # JNull
    THEN [d |-> [d EXCEPT !.last_known_credits = known], known |-> known]
    ELSE [d |-> d, known |-> known]

(***************************************************************************)
(* Refresh cycles (coordinator.py:62-123)                                  *)
(*   pc       "idle", "fetch" (awaiting async_get_schedule), "gather"      *)
(*            (awaiting asyncio.gather), "done"                            *)
(*   now      dt_util.utcnow() of the cycle                                *)
(*   d        the data dict of the cycle                                   *)
(*   refs     event_refs, as indices into the events list                  *)
(*   outcome  "none" while it runs; "published": _async_update_data        *)
(*            returned; "reauth": ConfigEntryAuthFailed; "failed":         *)
(*            UpdateFailed; "fault": another exception left                *)
(*            _async_update_data                                           *)
(***************************************************************************)
\* the record of the cycle that ran in a slot before the present one: its
\* instant, what schedule/json and each detail task answered, its targets,
\* its outcome and the Schedule it returned
NoPrevious ==
    [valid |-> FALSE, now |-> 0, serr |-> NoError, sres |-> NoBody, refs |-> <<>>,
     results |-> <<>>, outcome |-> "none", d |-> NoData]

IdleCycle ==
    [pc |-> "idle", now |-> 0, d |-> NoData, refs |-> <<>>, outcome |-> "none",
     prev |-> NoPrevious]

\* variant: one except clause for every client error
FetchOutcomeUntyped(err) == "failed"

\* _async_fetch_schedule's except clauses
FetchOutcome(err) == IF err = AuthError THEN "reauth" ELSE "failed"

\* raw_events = data.get("events", [])
RawEvents(d) == IF d.events.kind = "list" THEN d.events.items ELSE <<>>

\* the gathered results of slot c, in task order
\* variant: the results in the reverse of the order of the tasks
ResultsReversed(cs, c, n) ==
    [i \in 1..n |-> Result(cs[TaskCall(c, n + 1 - i)].err, cs[TaskCall(c, n + 1 - i)].res)]

Results(cs, c, n) == [i \in 1..n |-> Result(cs[TaskCall(c, i)].err, cs[TaskCall(c, i)].res)]

\* the credits figures a cycle collects: those of its dict results
CollectedSet(results) ==
    { DetailPayloads[results[i].res].creditsRemaining.n :
        i \in { j \in 1..Len(results) :
                  /\ results[j].err = NoError
                  /\ DetailPayloads[results[j].res].isdict
                  /\ DetailPayloads[results[j].res].creditsRemaining.t \in {"int", "bool"} } }

SetMax(S) == CHOOSE x \in S : \A y \in S : y <= x

\* _async_enrich_events from the merge on, then `return data`
Finish(d, refs, results, known, user_email) ==
    LET m == _merge_event_details(RawEvents(d), refs, results, user_email)
        d1 == _store_user_first_name([d EXCEPT !.events.items = m.items], m.items)
        u == _update_last_known_credits(d1, m.credits_values, known)
    IN  IF m.raised
        THEN [outcome |-> "fault", d |-> d, known |-> known]
        ELSE [outcome |-> "published", d |-> u.d, known |-> u.known]

\* the finished cycle of slot c, as the next cycle of the slot remembers it
Previous(cs, cy, c) ==
    IF cy[c].pc # "done" THEN NoPrevious
    ELSE [valid |-> TRUE, now |-> cy[c].now,
          serr |-> cs[SchedCall(c)].err, sres |-> cs[SchedCall(c)].res,
          refs |-> cy[c].refs, results |-> Results(cs, c, Len(cy[c].refs)),
          outcome |-> cy[c].outcome, d |-> cy[c].d]

\* the cycle of slot c ends: what it publishes and what it leaves in the
\* coordinator
EndCycle(c, f, results) ==
    /\ cyc' = [cyc EXCEPT ![c] = [@ EXCEPT !.pc = "done", !.outcome = f.outcome, !.d = f.d]]
    /\ data' = IF f.outcome = "published" THEN f.d ELSE data
    /\ last_known_credits' = f.known
    /\ last_collected' =
          IF f.outcome = "published" /\ CollectedSet(results) # {}
          THEN JInt(SetMax(CollectedSet(results)))
          ELSE last_collected

\* async_get_schedule returned or raised (call record nc): the rest of
\* _async_update_data up to its next await
FetchReturn(c, nc) ==
    LET d == ScheduleBodies[nc.res]
        refs == _build_detail_tasks(RawEvents(d), cyc[c].now)
    IN
    IF nc.err # NoError
    THEN /\ cyc' = [cyc EXCEPT ![c] = [@ EXCEPT !.pc = "done", !.outcome = FetchOutcome(nc.err)]]
         /\ calls' = [calls EXCEPT ![SchedCall(c)] = nc]
         /\ UNCHANGED <<sem_value, last_known_credits, data, refreshes, clock, last_collected>>
    ELSE IF ~d.isdict
    THEN \* data.get raises AttributeError
         /\ cyc' = [cyc EXCEPT ![c] = [@ EXCEPT !.pc = "done", !.outcome = "fault"]]
         /\ calls' = [calls EXCEPT ![SchedCall(c)] = nc]
         /\ UNCHANGED <<sem_value, last_known_credits, data, refreshes, clock, last_collected>>
    ELSE IF d.events.kind \notin {"list", "absent"}
    THEN \* `if not isinstance(raw_events, list): return`
         /\ EndCycle(c, [outcome |-> "published", d |-> d, known |-> last_known_credits], <<>>)
         /\ calls' = [calls EXCEPT ![SchedCall(c)] = nc]
         /\ UNCHANGED <<sem_value, refreshes, clock>>
    ELSE IF refs = <<>>
    THEN \* `if tasks:` is false
         /\ EndCycle(c, Finish(d, <<>>, <<>>, last_known_credits, Lower(username)), <<>>)
         /\ calls' = [calls EXCEPT ![SchedCall(c)] = nc]
         /\ UNCHANGED <<sem_value, refreshes, clock>>
    ELSE \* asyncio.create_task per reference, then await asyncio.gather
         /\ cyc' = [cyc EXCEPT ![c] = [@ EXCEPT !.pc = "gather", !.d = d, !.refs = refs]]
         /\ calls' = [k \in CallIds |->
                        IF k = SchedCall(c) THEN nc
                        ELSE IF \E i \in 1..Len(refs) : k = TaskCall(c, i)
                        THEN [FreeCall EXCEPT !.op = "details", !.pc = "sem_wait"]
                        ELSE calls[k]]
         /\ UNCHANGED <<sem_value, last_known_credits, data, refreshes, clock, last_collected>>

\* variant: the permit is released after the call, outside any `finally`
TaskReturnLeaky(k, nc) ==
    /\ calls' = [calls EXCEPT ![k] = nc]
    /\ sem_value' = IF nc.err = NoError THEN sem_value + 1 ELSE sem_value
    /\ UNCHANGED <<last_known_credits, cyc, data, refreshes, clock, last_collected>>

\* variant: the references of the cycle are the events of the schedule the
\* coordinator holds, so that a returned description is written into it
TaskReturnIntoCached(k, nc) ==
    LET c == SlotOfTask(k)
        e == cyc[c].refs[k - TaskCall(c, 0)]
    IN
    /\ calls' = [calls EXCEPT ![k] = nc]
    /\ sem_value' = sem_value + 1
    /\ data' = IF /\ nc.err = NoError
                  /\ data.isdict /\ data.events.kind = "list"
                  /\ e <= Len(data.events.items)
                  /\ DetailPayloads[nc.res].isdict
                  /\ Truthy(DetailPayloads[nc.res].description)
               THEN [data EXCEPT !.events.items[e].description =
                                     DetailPayloads[nc.res].description]
               ELSE data
    /\ UNCHANGED <<last_known_credits, cyc, refreshes, clock, last_collected>>

\* variant: the permit is taken with acquire() and never given back
TaskReturnKeepsPermit(k, nc) ==
    /\ calls' = [calls EXCEPT ![k] = nc]
    /\ UNCHANGED <<sem_value, last_known_credits, cyc, data, refreshes, clock, last_collected>>

\* a detail task ended (call record nc): `async with` releases the permit
TaskReturn(k, nc) ==
    /\ calls' = [calls EXCEPT ![k] = nc]
    /\ sem_value' = sem_value + 1
    /\ UNCHANGED <<last_known_credits, cyc, data, refreshes, clock, last_collected>>

(***************************************************************************)
(* The service handlers of __init__.py.  A handler run records its inputs  *)
(* (op; sel, how the call selects a config entry; ready, whether the entry *)
(* has runtime data; start and end of an enroll), its status ("running"    *)
(* while the client call is awaited, "rejected" with ServiceValidationError,*)
(* "failed" with HomeAssistantError, "fault" when another exception        *)
(* escapes, "refreshed" when it returned), the translation key of the      *)
(* error, and how often it called coordinator.async_request_refresh().     *)
(***************************************************************************)
\* call.data's config_entry_id and the entries it meets: an id and the
\* entry it names, or no id and the number of loaded entries of the domain
EntryById(entry) == [given |-> TRUE, entry |-> entry, loaded |-> 0]
EntryByDefault(n) == [given |-> FALSE, entry |-> "none", loaded |-> n]

EntrySelections ==
    {EntryById(e) : e \in {"missing", "foreign", "unloaded", "loaded"}}
    \cup {EntryByDefault(n) : n \in 0..2}

IdleService ==
    [op |-> "none", sel |-> EntryByDefault(0), ready |-> FALSE, start |-> 0, end |-> 0,
     status |-> "none", key |-> "none", refresh_requests |-> 0]

\* _get_loaded_entry_or_raise: the translation key it raises, "none" when it
\* returns an entry
_get_loaded_entry_or_raise(sel) ==
    IF sel.given
    THEN IF sel.entry \in {"missing", "foreign"} THEN "config_entry_not_found"
         ELSE IF sel.entry # "loaded" THEN "config_entry_not_loaded"
         ELSE "none"
    ELSE IF sel.loaded = 0 THEN "no_loaded_entries"
         ELSE IF sel.loaded > 1 THEN "multiple_entries_specify_id"
         ELSE "none"

\* _get_runtime_data_or_raise
_get_runtime_data_or_raise(ready) == IF ready THEN "none" ELSE "config_entry_not_ready"

\* variant: only an end before the start is refused
EndNotAfterStartStrict(start, end) == end < start

\* handle_enroll: `if end <= start`
EndNotAfterStart(start, end) == end <= start

\* the ServiceValidationError a handler raises before it calls the client
ServiceRejection(op, sel, ready, start, end) ==
    IF _get_loaded_entry_or_raise(sel) # "none" THEN _get_loaded_entry_or_raise(sel)
    ELSE IF _get_runtime_data_or_raise(ready) # "none" THEN _get_runtime_data_or_raise(ready)
    ELSE IF op = "enroll" /\ EndNotAfterStart(start, end) THEN "end_time_after_start_time"
    ELSE "none"

\* variant: the refresh is requested in a `finally:` clause
AfterCallAlways(run, nc) ==
    IF nc.pc # "done" THEN run
    ELSE IF nc.err = AuthError
    THEN [run EXCEPT !.status = "failed", !.key = "service_auth_failed",
                     !.refresh_requests = @ + 1]
    ELSE IF IsFitblocksError(nc.err)
    THEN [run EXCEPT !.status = "failed", !.key = "service_call_failed",
                     !.refresh_requests = @ + 1]
    ELSE IF nc.err # NoError THEN [run EXCEPT !.status = "fault", !.refresh_requests = @ + 1]
    ELSE [run EXCEPT !.status = "refreshed", !.refresh_requests = @ + 1]

\* a handler after a step of its client call (call record nc): the except
\* clauses, then `await coordinator.async_request_refresh()`
AfterCall(run, nc) ==
    IF nc.pc # "done" THEN run
    ELSE IF nc.err = AuthError
    THEN [run EXCEPT !.status = "failed", !.key = "service_auth_failed"]
    ELSE IF IsFitblocksError(nc.err)
    THEN [run EXCEPT !.status = "failed", !.key = "service_call_failed"]
    ELSE IF nc.err # NoError THEN [run EXCEPT !.status = "fault"]
    ELSE [run EXCEPT !.status = "refreshed", !.refresh_requests = @ + 1]

(***************************************************************************)
(* Config entries (config_flow.py) and the diagnostics export              *)
(* (diagnostics.py)                                                        *)
(***************************************************************************)
\* str.rstrip("/") and str.strip("/") on the sample strings
StripSlash(x) ==
    CASE x = "https://fitblocks.nl/" -> "https://fitblocks.nl"
      [] x = "/physicsperformance/" -> "physicsperformance"
      [] OTHER -> x

\* username.split("@", 1)[0].replace(".", " ").replace("_", " ").title()
\* on the sample strings
TitledUserPart(x) ==
    CASE x = "Ann@Gym.nl" -> "Ann"
      [] x = "ann@box.nl" -> "Ann"
      [] x = "ann_lee@gym.nl" -> "Ann Lee"
      [] OTHER -> x

\* what the user step of the flow is given: the form fields, and the name on
\* the dashboard page ("" when the page shows none)
FlowInput(base_url, box, user, password, display_name, branding) ==
    [base_url |-> base_url, box |-> box, username |-> user, password |-> password,
     display_name |-> display_name, branding |-> branding]

NoEntry ==
    [title |-> "", data |-> [base_url |-> "", box |-> "", username |-> "", password |-> ""],
     options |-> [display_name |-> Absent]]

\* async_step_user after a login that succeeded: async_create_entry
async_step_user(form) ==
    LET user == Strip(form.username)
        display_name_in == Strip(form.display_name)
        display_name == IF display_name_in # "" THEN display_name_in
                        ELSE TitledUserPart(user)
    IN  [title |-> IF form.branding # "" THEN form.branding
                   ELSE StripSlash(form.box) \o " @ " \o StripSlash(form.base_url),
         data |-> [base_url |-> StripSlash(form.base_url), box |-> StripSlash(form.box),
                   username |-> user, password |-> form.password],
         options |-> [display_name |-> IF display_name # "" THEN JStr(display_name)
                                       ELSE Absent]]

\* async_step_reauth_confirm after a login that succeeded: the entry with new
\* credentials in its data
async_step_reauth_confirm(entry, user, password) ==
    [entry EXCEPT !.data.username = Strip(user), !.data.password = password]

\* FitblocksConnectOptionsFlow.async_step_init with the form filled in: the
\* entry with its new options
async_step_init(entry, display_name_input) ==
    [entry EXCEPT !.options.display_name =
        IF Strip(display_name_input) # "" THEN JStr(Strip(display_name_input)) ELSE Absent]

\* entry.data.get(key): the value under a key of the entry's data, None
\* when the data has no such key
EntryDataGet(entry, key) ==
    IF key \in DOMAIN entry.data THEN JStr(entry.data[key]) ELSE JNull

\* FitblocksConnectCalendarEntity.__init__: self._display_name
calendar_display_name(entry) ==
    LET display_name_setting == EntryDataGet(entry, "display_name")
        fallback == TitledUserPart(entry.data.username)
    IN  IF display_name_setting.t = "str" /\ Strip(display_name_setting.s) # ""
        THEN Strip(display_name_setting.s)
        ELSE IF fallback # "" THEN fallback ELSE "Gebruiker"

\* async_setup_entry of sensor.py: display_name
sensor_display_name(entry) ==
    LET display_name == EntryDataGet(entry, "display_name")
    IN  IF Truthy(display_name) THEN display_name.s
        ELSE TitledUserPart(entry.data.username)

\* the display names the platforms of an entry give their entities
entity_display_names(entry) ==
    [raised |-> FALSE,
     out |-> [calendar |-> calendar_display_name(entry), sensor |-> sensor_display_name(entry)]]

Redacted == "**REDACTED**"

\* variant: only the password is redacted
TO_REDACT_PasswordOnly == {"password"}

\* TO_REDACT = {CONF_PASSWORD, CONF_USERNAME}
TO_REDACT == {"password", "username"}

\* async_redact_data(entry.as_dict(), to_redact): the values under the keys
\* of to_redact are replaced, at any depth
async_redact_data(entry, to_redact) ==
    [title |-> IF "title" \in to_redact THEN Redacted ELSE entry.title,
     data |-> [base_url |-> IF "base_url" \in to_redact THEN Redacted ELSE entry.data.base_url,
               box |-> IF "box" \in to_redact THEN Redacted ELSE entry.data.box,
               username |-> IF "username" \in to_redact THEN Redacted
                            ELSE entry.data.username,
               password |-> IF "password" \in to_redact THEN Redacted
                            ELSE entry.data.password],
     options |-> [display_name |-> IF "display_name" \in to_redact THEN JStr(Redacted)
                                   ELSE entry.options.display_name]]

\* the export for an entry without runtime data
NoExport ==
    [entry |-> NoEntry,
     coordinator_data |-> [present |-> FALSE, events_count |-> JNull,
                           has_user_first_name |-> FALSE, last_known_credits |-> JNull],
     client |-> [present |-> FALSE, base_url |-> "", box |-> "", is_logged_in |-> FALSE,
                 branding_name |-> JNull]]

\* async_get_config_entry_diagnostics: entry is the config entry, loaded
\* tells whether it has runtime data, d is coordinator.data and li the
\* client's is_logged_in. The client was built from the entry's base_url and
\* box; its branding name is never fetched after setup.
async_get_config_entry_diagnostics(entry, loaded, d, li) ==
    IF ~loaded
    THEN [NoExport EXCEPT !.entry = async_redact_data(entry, TO_REDACT)]
    ELSE [entry |-> async_redact_data(entry, TO_REDACT),
          coordinator_data |->
              [present |-> TRUE,
               events_count |-> IF d.isdict /\ d.events.kind = "list"
                                THEN JInt(Len(d.events.items)) ELSE JNull,
               has_user_first_name |-> d.isdict /\ d.user_first_name.t = "str",
               last_known_credits |-> IF d.isdict /\ d.last_known_credits.t # "absent"
                                      THEN d.last_known_credits ELSE JNull],
          client |-> [present |-> TRUE, base_url |-> entry.data.base_url,
                      box |-> entry.data.box, is_logged_in |-> li,
                      branding_name |-> JNull]]

\* a render and what it gave, as kept of the render before
NoBefore == [view |-> "none", entry |-> NoEntry, loaded |-> FALSE, out |-> NoExport]

\* what a render showed: the view, its inputs and its result, and for a
\* diagnostics export the export taken right before it; nothing is kept of a
\* render once the program takes another step
NoView ==
    [view |-> "none", now |-> 0, start_date |-> 0, end_date |-> 0,
     event_key |-> <<>>, raised |-> FALSE, out |-> <<>>,
     entry |-> NoEntry, loaded |-> FALSE, before |-> NoBefore]

Shown(view, result) == [NoView EXCEPT !.view = view, !.raised = result.raised, !.out = result.out]

\* what follows a step of call k that left it as nc
Resume(k, nc) ==
    IF nc.pc # "done" \/ k \in ActCalls
    THEN /\ calls' = [calls EXCEPT ![k] = nc]
         /\ svc' = IF k \in ActCalls /\ svc[k].status = "running"
                   THEN [svc EXCEPT ![k] = AfterCall(@, nc)]
                   ELSE svc
         /\ shown' = NoView
         /\ UNCHANGED coordVars
    ELSE IF k \in SchedCalls
    THEN FetchReturn(SlotOfSched(k), nc) /\ UNCHANGED svc /\ shown' = NoView
    ELSE TaskReturn(k, nc) /\ UNCHANGED svc /\ shown' = NoView

(***************************************************************************)
(* The views: calendar.py and sensor.py.  Each is a function of the        *)
(* published Schedule (coordinator.data) and of the instant of the render. *)
(* A view returns [raised, out]: raised when an exception escapes it.      *)
(***************************************************************************)
\* the views' parsing of a start or end that is a string:
\* dt_util.parse_datetime, a value without zone taken in
\* DEFAULT_TIME_ZONE, dt_util.as_utc; NoneDt when parse_datetime gives None
view_datetime(d) ==
    IF d.shape \notin {"iso", "space"} THEN NoneDt
    ELSE IF d.zone = NoZone THEN d.wall - LocalOffset
    ELSE d.wall - d.zone

\* `self.coordinator.data or {}`, then data.get("events", []) when it is a list
ViewEvents(d) == IF d.isdict /\ d.events.kind = "list" THEN d.events.items ELSE <<>>

\* the first name the config entry gives: the display name's first word
DisplayFirstName == JStr("Ann")

FirstTruthy(a, b) == IF Truthy(a) THEN a ELSE b

\* the CalendarEvent _build_events yields for item ev
CalendarEventOf(d, ev) ==
    [start |-> view_datetime(ev.start), end |-> view_datetime(ev.end),
     uid |-> FirstTruthy(ev.id, FirstTruthy(ev.eventId, FirstTruthy(ev.scheduleRegistrationId, JNull))),
     first_name |-> FirstTruthy(ev.user_first_name,
                                FirstTruthy(IF d.isdict THEN d.user_first_name ELSE Absent,
                                            DisplayFirstName)),
     description |-> FirstTruthy(ev.description, JStr(""))]

\* _build_events from item i on: the events yielded, or the exception of
\* parse_datetime on a start or end that is no string
RECURSIVE BuildEventsFrom(_, _, _)
BuildEventsFrom(d, items, i) ==
    IF i > Len(items) THEN [raised |-> FALSE, out |-> <<>>]
    ELSE LET ev == items[i]
             rest == BuildEventsFrom(d, items, i + 1)
         IN  IF ~ev.isdict \/ ~calendar_shows_enrolled(ev) THEN rest
             ELSE IF ~DtTruthy(ev.start) \/ ~DtTruthy(ev.end) THEN rest
             ELSE IF ev.start.t # "str" \/ ev.end.t # "str"
             THEN [raised |-> TRUE, out |-> <<>>]
             ELSE IF view_datetime(ev.start) = NoneDt \/ view_datetime(ev.end) = NoneDt
             THEN rest
             ELSE [raised |-> rest.raised,
                   out |-> IF rest.raised THEN <<>> ELSE <<CalendarEventOf(d, ev)>> \o rest.out]

_build_events(d) == BuildEventsFrom(d, ViewEvents(d), 1)

\* list.sort(key=lambda ev: ev.start): stable, by insertion
RECURSIVE InsertByStart(_, _)
InsertByStart(sorted, ev) ==
    IF sorted = <<>> THEN <<ev>>
    ELSE IF ev.start < sorted[1].start THEN <<ev>> \o sorted
    ELSE <<sorted[1]>> \o InsertByStart(Tail(sorted), ev)

RECURSIVE SortByStart(_, _)
SortByStart(evs, n) ==
    IF n = 0 THEN <<>> ELSE InsertByStart(SortByStart(evs, n - 1), evs[n])

NoEvent == [start |-> NoneDt, end |-> NoneDt, uid |-> JNull, first_name |-> JNull,
            description |-> JNull]

\* the loop of the calendar's `event` property over the sorted events
RECURSIVE CurrentOrNextFrom(_, _, _)
CurrentOrNextFrom(evs, now, i) ==
    IF i > Len(evs) THEN NoEvent
    ELSE IF evs[i].start <= now /\ now < evs[i].end THEN evs[i]
    ELSE IF evs[i].start >= now THEN evs[i]
    ELSE CurrentOrNextFrom(evs, now, i + 1)

\* FitblocksConnectCalendarEntity.event
calendar_event(d, now) ==
    LET built == _build_events(d)
    IN  IF built.raised THEN [raised |-> TRUE, out |-> NoEvent]
        ELSE [raised |-> FALSE,
              out |-> CurrentOrNextFrom(SortByStart(built.out, Len(built.out)), now, 1)]

\* async_get_events' _in_range
_in_range(ev, start_date, end_date) == ev.end > start_date /\ ev.start < end_date

\* FitblocksConnectCalendarEntity.async_get_events
async_get_events(d, start_date, end_date) ==
    LET built == _build_events(d)
    IN  IF built.raised THEN [raised |-> TRUE, out |-> <<>>]
        ELSE [raised |-> FALSE,
              out |-> SelectSeq(built.out, LAMBDA ev : _in_range(ev, start_date, end_date))]

\* str(key) of an event key: digits of a number, the text of a string
StrOf(v) == IF v.t = "str" THEN <<"text", v.n, v.s>> ELSE <<"digits", v.n, "">>

\* the start the sensors compare with now; NoneDt when the item is skipped.
\* parse_datetime raises on a truthy start that is no string.
SensorStartRaises(ev) == DtTruthy(ev.start) /\ ev.start.t # "str"
SensorStart(ev) == IF ~DtTruthy(ev.start) THEN NoneDt ELSE view_datetime(ev.start)

\* FitblocksConnectCreditsSensor.native_value: the loop from item i on, the
\* integer figures of the upcoming enrolled events
RECURSIVE CreditsValuesFrom(_, _, _)
CreditsValuesFrom(items, now, i) ==
    IF i > Len(items) THEN [raised |-> FALSE, out |-> <<>>]
    ELSE LET ev == items[i]
             rest == CreditsValuesFrom(items, now, i + 1)
         IN  IF ~credits_sensor_enrolled(ev) THEN rest
             ELSE IF SensorStartRaises(ev) THEN [raised |-> TRUE, out |-> <<>>]
             ELSE IF SensorStart(ev) = NoneDt \/ SensorStart(ev) < now THEN rest
             ELSE IF ~IsInt(ev.credits_remaining) THEN rest
             ELSE [raised |-> rest.raised,
                   out |-> IF rest.raised THEN <<>> ELSE <<ev.credits_remaining.n>> \o rest.out]

\* FitblocksConnectCreditsSensor.native_value
credits_native_value(d, now) ==
    LET values == CreditsValuesFrom(ViewEvents(d), now, 1)
        fallback == IF d.isdict THEN d.last_known_credits ELSE Absent
    IN  IF values.raised THEN [raised |-> TRUE, out |-> JNull]
        ELSE IF values.out # <<>> THEN [raised |-> FALSE, out |-> JInt(MaxOf(values.out))]
        ELSE IF IsInt(fallback) THEN [raised |-> FALSE, out |-> JInt(fallback.n)]
        ELSE [raised |-> FALSE, out |-> JNull]

\* FitblocksConnectEnrolledCountSensor.native_value from item i on
RECURSIVE EnrolledCountFrom(_, _, _)
EnrolledCountFrom(items, now, i) ==
    IF i > Len(items) THEN [raised |-> FALSE, out |-> 0]
    ELSE LET ev == items[i]
             rest == EnrolledCountFrom(items, now, i + 1)
         IN  IF ~enrolled_count_enrolled(ev) THEN rest
             ELSE IF SensorStartRaises(ev) THEN [raised |-> TRUE, out |-> 0]
             ELSE IF SensorStart(ev) = NoneDt \/ SensorStart(ev) < now THEN rest
             ELSE [raised |-> rest.raised, out |-> IF rest.raised THEN 0 ELSE rest.out + 1]

enrolled_count_native_value(d, now) == EnrolledCountFrom(ViewEvents(d), now, 1)

\* FitblocksConnectLessonSensor._get_event: the index of the item, 0 for None
RECURSIVE GetEventFrom(_, _, _)
GetEventFrom(items, event_key, i) ==
    IF i > Len(items) THEN 0
    ELSE IF items[i].isdict
            /\ Truthy(FirstTruthy(items[i].eventId, items[i].id))
            /\ StrOf(FirstTruthy(items[i].eventId, items[i].id)) = event_key
    THEN i
    ELSE GetEventFrom(items, event_key, i + 1)

_get_event(d, event_key) == GetEventFrom(ViewEvents(d), event_key, 1)

\* FitblocksConnectLessonSensor.native_value
lesson_native_value(d, event_key) ==
    LET i == _get_event(d, event_key)
    IN  IF i = 0 THEN [raised |-> FALSE, out |-> NoneDt]
        ELSE IF SensorStartRaises(ViewEvents(d)[i]) THEN [raised |-> TRUE, out |-> NoneDt]
        ELSE [raised |-> FALSE, out |-> SensorStart(ViewEvents(d)[i])]

NoAttributes ==
    [found |-> FALSE, start |-> NoneDt, end |-> NoneDt, first_name |-> JNull,
     credits_remaining |-> JNull, occupancy |-> FALSE, participants |-> <<>>]

\* FitblocksConnectLessonSensor.extra_state_attributes
lesson_extra_state_attributes(d, event_key) ==
    LET i == _get_event(d, event_key)
        ev == ViewEvents(d)[i]
    IN  IF i = 0 THEN [raised |-> FALSE, out |-> NoAttributes]
        ELSE IF SensorStartRaises(ev) \/ (DtTruthy(ev.end) /\ ev.end.t # "str")
        THEN [raised |-> TRUE, out |-> NoAttributes]
        ELSE [raised |-> FALSE,
              out |-> [found |-> TRUE,
                       start |-> SensorStart(ev),
                       end |-> IF DtTruthy(ev.end) THEN view_datetime(ev.end) ELSE NoneDt,
                       first_name |-> FirstTruthy(ev.user_first_name, DisplayFirstName),
                       credits_remaining |-> IF ev.credits_remaining.t = "absent" THEN JNull
                                             ELSE ev.credits_remaining,
                       occupancy |-> IsInt(ev.total_registrations)
                                     /\ IsInt(ev.total_possible_registrations),
                       participants |-> ev.participants]]

\* the key async_setup_entry binds a lesson sensor to:
\* str(item.get("eventId") or item.get("id") or start.isoformat())
LessonKey(ev) ==
    IF Truthy(FirstTruthy(ev.eventId, ev.id)) THEN StrOf(FirstTruthy(ev.eventId, ev.id))
    ELSE <<"isoformat", SensorStart(ev), "">>

\* async_setup_entry of sensor.py, the loop over coordinator.data's events
\* from item i on: the (start, key) pairs of the lesson sensors, or the
\* exception of parse_datetime
RECURSIVE LessonSensorsFrom(_, _, _)
LessonSensorsFrom(items, now, i) ==
    IF i > Len(items) THEN [raised |-> FALSE, out |-> <<>>]
    ELSE LET ev == items[i]
             rest == LessonSensorsFrom(items, now, i + 1)
         IN  IF ~lesson_sensor_enrolled(ev) THEN rest
             ELSE IF SensorStartRaises(ev) THEN [raised |-> TRUE, out |-> <<>>]
             ELSE IF SensorStart(ev) = NoneDt \/ SensorStart(ev) < now THEN rest
             ELSE [raised |-> rest.raised,
                   out |-> IF rest.raised THEN <<>>
                           ELSE <<[start |-> SensorStart(ev), event_key |-> LessonKey(ev)]>>
                                \o rest.out]

\* async_setup_entry of sensor.py: the event keys of the lesson sensors it
\* adds, in the order of their index
async_setup_entry_sensors(d, now) ==
    LET found == LessonSensorsFrom(ViewEvents(d), now, 1)
        sorted == SortByStart(found.out, Len(found.out))
    IN  [raised |-> found.raised,
         out |-> [i \in 1..Len(sorted) |-> sorted[i].event_key]]

(***************************************************************************)
(* Actions                                                                 *)
(***************************************************************************)
\* variant: a render asks the coordinator for fresh data
RenderAndRefresh(view) ==
    /\ shown' = view
    /\ refreshes' = refreshes + 1
    /\ UNCHANGED <<username, csrf_token, logged_in, calls, invoked, svc>>
    /\ UNCHANGED <<sem_value, last_known_credits, cyc, data, clock, last_collected>>

\* a render of a view: a read of coordinator.data
Render(view) ==
    /\ shown' = view
    /\ UNCHANGED <<username, csrf_token, logged_in, calls, invoked, svc>>
    /\ UNCHANGED coordVars

RenderCalendarEvent(now) ==
    Render([Shown("calendar_event", calendar_event(data, now)) EXCEPT !.now = now])

RenderCalendarRange(start_date, end_date) ==
    Render([Shown("calendar_range", async_get_events(data, start_date, end_date))
               EXCEPT !.start_date = start_date, !.end_date = end_date])

RenderCredits(now) ==
    Render([Shown("credits", credits_native_value(data, now)) EXCEPT !.now = now])

RenderEnrolledCount(now) ==
    Render([Shown("enrolled_count", enrolled_count_native_value(data, now)) EXCEPT !.now = now])

RenderLessonValue(event_key) ==
    Render([Shown("lesson_value", lesson_native_value(data, event_key))
               EXCEPT !.event_key = event_key])

RenderLessonAttributes(event_key) ==
    Render([Shown("lesson_attributes", lesson_extra_state_attributes(data, event_key))
               EXCEPT !.event_key = event_key])

\* the sensor platform is set up, after the first refresh has published
SetupSensors(now) ==
    /\ data # NoData
    /\ Render([Shown("setup", async_setup_entry_sensors(data, now)) EXCEPT !.now = now])

\* the calendar and sensor platforms of a config entry are set up, after
\* the first refresh has published
SetupPlatforms(entry) ==
    /\ data # NoData
    /\ Render([Shown("names", entity_display_names(entry)) EXCEPT !.entry = entry])

\* the diagnostics download of a config entry
RenderDiagnostics(entry, loaded) ==
    Render([NoView EXCEPT
              !.view = "diagnostics", !.entry = entry, !.loaded = loaded,
              !.out = async_get_config_entry_diagnostics(entry, loaded, data, logged_in),
              !.before = IF shown.view = "diagnostics"
                         THEN [view |-> shown.view, entry |-> shown.entry,
                               loaded |-> shown.loaded, out |-> shown.out]
                         ELSE NoBefore])

\* a caller (a service action) invokes an authenticated operation
Invoke(k, op) ==
    /\ k \in ActCalls
    /\ calls[k].pc \in {"free", "done"}
    /\ invoked < MaxInvocations
    /\ invoked' = invoked + 1
    /\ calls' = [calls EXCEPT ![k] = StartCall(op, logged_in, csrf_token)]
    /\ UNCHANGED <<username, csrf_token, logged_in, svc>>
    /\ UNCHANGED coordVars
    /\ shown' = NoView

\* a service call arrives for handler k: handle_enroll or handle_unenroll up
\* to its first await, or to the error it raises before
Service(k, op, sel, ready, start, end) ==
    /\ k \in ActCalls
    /\ calls[k].pc \in {"free", "done"}
    /\ svc[k].status # "running"
    /\ invoked < MaxInvocations
    /\ invoked' = invoked + 1
    /\ LET run == [IdleService EXCEPT !.op = op, !.sel = sel, !.ready = ready,
                                      !.start = start, !.end = end, !.status = "running"]
           key == ServiceRejection(op, sel, ready, start, end)
           nc == StartCall(op, logged_in, csrf_token)
       IN  IF key # "none"
           THEN /\ svc' = [svc EXCEPT ![k] = [run EXCEPT !.status = "rejected", !.key = key]]
                /\ calls' = [calls EXCEPT ![k] = FreeCall]
           ELSE /\ svc' = [svc EXCEPT ![k] = AfterCall(run, nc)]
                /\ calls' = [calls EXCEPT ![k] = nc]
    /\ UNCHANGED <<username, csrf_token, logged_in>>
    /\ UNCHANGED coordVars
    /\ shown' = NoView

\* the login page answers call k
LoginPage(k, r) ==
    /\ calls[k].pc = "login_get"
    /\ LET s == OnLoginPage(calls[k], r, csrf_token)
       IN  csrf_token' = s.tok /\ Resume(k, s.c)
    /\ UNCHANGED <<username, logged_in, invoked>>

\* the credentials POST of call k is answered
LoginPost(k, r) ==
    /\ calls[k].pc = "login_post"
    /\ Resume(k, OnLoginPost(calls[k], r))
    /\ UNCHANGED <<username, csrf_token, logged_in, invoked>>

\* the schedule page (CSRF refresh) answers call k
LoginRefresh(k, r) ==
    /\ calls[k].pc = "login_refresh"
    /\ LET s == OnLoginRefresh(calls[k], r, csrf_token)
       IN  csrf_token' = s.tok /\ logged_in' = s.li /\ Resume(k, s.c)
    /\ UNCHANGED <<username, invoked>>

\* the endpoint of call k answers
Endpoint(k, r) ==
    /\ calls[k].pc = "endpoint"
    /\ Resume(k, OnEndpoint(calls[k], r))
    /\ UNCHANGED <<username, csrf_token, logged_in, invoked>>

\* variant: a semaphore that gives one permit too many
CanAcquireOffByOne(v) == v >= 0

\* _detail_semaphore has a permit to give
CanAcquire(v) == v > 0

\* a detail task gets its permit and runs up to its first await
Acquire(k) ==
    /\ k \in TaskCalls
    /\ calls[k].pc = "sem_wait"
    /\ CanAcquire(sem_value)
    /\ LET nc == StartCall("details", logged_in, csrf_token)
       IN  /\ calls' = [calls EXCEPT ![k] = nc]
           /\ sem_value' = IF nc.pc = "done" THEN sem_value ELSE sem_value - 1
    /\ UNCHANGED <<username, csrf_token, logged_in, invoked, svc>>
    /\ UNCHANGED <<last_known_credits, cyc, data, refreshes, clock, last_collected>>
    /\ shown' = NoView

\* the host starts a refresh cycle in slot c, the limit-th at most:
\* _async_update_data up to its first await
RefreshStart(c, now, limit, remember) ==
    /\ cyc[c].pc \in {"idle", "done"}
    /\ refreshes < limit
    /\ now >= clock
    /\ refreshes' = refreshes + 1
    /\ clock' = now
    /\ LET nc == StartCall("schedule", logged_in, csrf_token)
           cleared == [k \in CallIds |->
                         IF k = SchedCall(c) THEN nc
                         ELSE IF \E i \in 1..MaxEvents : k = TaskCall(c, i) THEN FreeCall
                         ELSE calls[k]]
       IN  /\ calls' = cleared
           /\ cyc' = [cyc EXCEPT ![c] = [IdleCycle EXCEPT !.pc = "fetch", !.now = now,
                                                        !.prev = IF remember THEN Previous(calls, cyc, c)
                                                                 ELSE NoPrevious]]
    /\ UNCHANGED <<username, csrf_token, logged_in, invoked, svc>>
    /\ UNCHANGED <<sem_value, last_known_credits, data, last_collected>>
    /\ shown' = NoView

\* asyncio.gather of slot c returns: every task of the cycle is done
GatherDone(c) ==
    /\ cyc[c].pc = "gather"
    /\ \A i \in 1..Len(cyc[c].refs) : calls[TaskCall(c, i)].pc = "done"
    /\ \E results \in {Results(calls, c, Len(cyc[c].refs))} :
          \E f \in {Finish(cyc[c].d, cyc[c].refs, results, last_known_credits,
                           Lower(username))} :
             EndCycle(c, f, results)
    /\ UNCHANGED <<username, csrf_token, logged_in, calls, invoked, svc>>
    /\ UNCHANGED <<sem_value, refreshes, clock>>
    /\ shown' = NoView

(***************************************************************************)
(* Specifications                                                          *)
(***************************************************************************)
\* the state after construction for the account `account`
InitFor(account) ==
    /\ username = account
    /\ csrf_token = NoToken
    /\ logged_in = FALSE
    /\ calls = [k \in CallIds |-> FreeCall]
    /\ invoked = 0
    /\ sem_value = MAX_CONCURRENT_EVENT_DETAIL_REQUESTS
    /\ last_known_credits = JNull
    /\ cyc = [c \in Slots |-> IdleCycle]
    /\ data = NoData
    /\ refreshes = 0
    /\ clock = ClockStart
    /\ last_collected = JNull
    /\ svc = [k \in ActCalls |-> IdleService]
    /\ shown = NoView

Init == InitFor("Ann@Gym.nl")

\* the responses the endpoint of call k may give
EndpointResponses(k, schedules, details) ==
    CASE calls[k].op = "schedule" -> schedules
      [] calls[k].op = "details" -> details
      [] OTHER -> JsonResponses(ActBodies)

\* the failures of a detail fetch: auth, API, connection, timeout
DetailFailures ==
    [tr : {"conn", "timeout"}, status : {0}, body : {NoBody}]
    \cup [tr : {"ok"}, status : {401, 500}, body : {NoBody}]

DetailResponses(bodies) ==
    DetailFailures \cup [tr : {"ok"}, status : {200}, body : bodies]

\* one coordinator whose refresh cycles follow one another
Next ==
    \/ \E now \in ClockStart..(ClockStart + MaxClock) : RefreshStart(1, now, MaxRefreshes, FALSE)
    \/ \E k \in TaskCalls : Acquire(k)
    \/ \E k \in SchedCalls \cup TaskCalls, r \in HtmlResponses : LoginPage(k, r)
    \/ \E k \in SchedCalls \cup TaskCalls, r \in HtmlResponses : LoginPost(k, r)
    \/ \E k \in SchedCalls \cup TaskCalls, r \in HtmlResponses : LoginRefresh(k, r)
    \/ \E k \in SchedCalls \cup TaskCalls :
          \E r \in EndpointResponses(k, JsonResponses(RichBodies), DetailResponses(RichPayloads)) :
             Endpoint(k, r)
    \/ GatherDone(1)

Spec == Init /\ [][Next]_vars

\* the client alone, called directly by up to MaxActs concurrent callers
NextClient ==
    \/ \E k \in ActCalls, op \in Ops : Invoke(k, op)
    \/ \E k \in ActCalls, r \in HtmlResponses : LoginPage(k, r)
    \/ \E k \in ActCalls, r \in HtmlResponses : LoginPost(k, r)
    \/ \E k \in ActCalls, r \in HtmlResponses : LoginRefresh(k, r)
    \/ \E k \in ActCalls :
          \E r \in EndpointResponses(k, JsonResponses({1}), JsonResponses({1})) : Endpoint(k, r)

SpecClient == Init /\ [][NextClient]_vars

\* the responses of the fan-out scenario: an answer, or a failure
PlainHtml ==
    [tr : {"ok"}, status : {200}, body : {"tokA"}]
    \cup [tr : {"timeout"}, status : {0}, body : {NoToken}]

PlainJson(bodies) ==
    [tr : {"ok"}, status : {200}, body : bodies]
    \cup [tr : {"ok"}, status : {500}, body : {NoBody}]

\* a coordinator whose refresh cycles may overlap, on the widest schedule
NextFanout ==
    \/ \E c \in Slots : RefreshStart(c, clock, MaxSlots, FALSE)
    \/ \E k \in TaskCalls : Acquire(k)
    \/ \E k \in SchedCalls \cup TaskCalls, r \in PlainHtml : LoginPage(k, r)
    \/ \E k \in SchedCalls \cup TaskCalls, r \in PlainHtml : LoginPost(k, r)
    \/ \E k \in SchedCalls \cup TaskCalls, r \in PlainHtml : LoginRefresh(k, r)
    \/ \E k \in SchedCalls \cup TaskCalls :
          \E r \in EndpointResponses(k, PlainJson(WideBodies), PlainJson(PlainPayloads)) :
             Endpoint(k, r)
    \/ \E c \in Slots : GatherDone(c)

SpecFanout == Init /\ [][NextFanout]_vars

\* the login pages of the queueing scenario
ServedHtml == [tr : {"ok"}, status : {200}, body : {"tokA"}]

\* the steps the coordinator takes once a cycle has started: a task gets a
\* permit, an HTTP call ends (a response, or the timeout of _request), and
\* asyncio.gather returns
QueueProgress ==
    \/ \E k \in TaskCalls : Acquire(k)
    \/ \E k \in SchedCalls \cup TaskCalls, r \in ServedHtml : LoginPage(k, r)
    \/ \E k \in SchedCalls \cup TaskCalls, r \in ServedHtml : LoginPost(k, r)
    \/ \E k \in SchedCalls \cup TaskCalls, r \in ServedHtml : LoginRefresh(k, r)
    \/ \E k \in SchedCalls \cup TaskCalls :
          \E r \in EndpointResponses(k, PlainJson(WideBodies), PlainJson(PlainPayloads)) :
             Endpoint(k, r)
    \/ \E c \in Slots : GatherDone(c)

\* overlapping cycles on the widest schedule, more detail tasks than permits
NextQueue ==
    \/ \E c \in Slots : RefreshStart(c, clock, MaxSlots, FALSE)
    \/ QueueProgress

\* the queueing scenario in which the event loop keeps running: while a
\* task can run or a call is awaited, one of them takes its step
SpecQueue == Init /\ [][NextQueue]_vars /\ WF_vars(QueueProgress)

\* one coordinator whose cycles follow one another, each remembering the
\* cycle before it
NextRerun ==
    \/ \E now \in ClockStart..(ClockStart + MaxClock) : RefreshStart(1, now, MaxRefreshes, TRUE)
    \/ \E k \in TaskCalls : Acquire(k)
    \/ \E k \in SchedCalls \cup TaskCalls, r \in PlainHtml : LoginPage(k, r)
    \/ \E k \in SchedCalls \cup TaskCalls, r \in PlainHtml : LoginPost(k, r)
    \/ \E k \in SchedCalls \cup TaskCalls, r \in PlainHtml : LoginRefresh(k, r)
    \/ \E k \in SchedCalls \cup TaskCalls :
          \E r \in EndpointResponses(k, PlainJson(RichBodies), PlainJson(RichPayloads)) :
             Endpoint(k, r)
    \/ GatherDone(1)

SpecRerun == Init /\ [][NextRerun]_vars

\* the instants a view may be rendered at and a range query may name: from
\* the coordinator's last utcnow() on
RenderInstants == clock..(clock + MaxRenderDelay)

\* the keys lesson sensors may have been created with: those of the events
\* of the sample schedules that the views take for enrolled, and one more
EventKeys == {StrOf(JInt(n)) : n \in {2, 3, 99}}

\* the schedule and detail samples the views are rendered on
ViewBodies == {1, 2, 6, 9}
ViewPayloads == {1, 2, 3}

\* one coordinator and its views
NextViews ==
    \/ \E now \in ClockStart..(ClockStart + MaxClock) : RefreshStart(1, now, MaxViewCycles, FALSE)
    \/ \E k \in TaskCalls : Acquire(k)
    \/ \E k \in SchedCalls \cup TaskCalls, r \in PlainHtml : LoginPage(k, r)
    \/ \E k \in SchedCalls \cup TaskCalls, r \in PlainHtml : LoginPost(k, r)
    \/ \E k \in SchedCalls \cup TaskCalls, r \in PlainHtml : LoginRefresh(k, r)
    \/ \E k \in SchedCalls \cup TaskCalls :
          \E r \in EndpointResponses(k, PlainJson(ViewBodies), PlainJson(ViewPayloads)) :
             Endpoint(k, r)
    \/ GatherDone(1)
    \/ \E now \in RenderInstants : RenderCalendarEvent(now)
    \/ \E start_date, end_date \in RenderInstants :
          start_date < end_date /\ RenderCalendarRange(start_date, end_date)
    \/ \E now \in RenderInstants : RenderCredits(now)
    \/ \E now \in RenderInstants : RenderEnrolledCount(now)
    \/ \E event_key \in EventKeys : RenderLessonValue(event_key)
    \/ \E event_key \in EventKeys : RenderLessonAttributes(event_key)

SpecViews == Init /\ [][NextViews]_vars

\* the accounts of the identity scenario: an email on the rosters, no email,
\* an email on no roster
Accounts == {"Ann@Gym.nl", "", "Zed@Gym.nl"}
IdentityBodies == {1, 8}
IdentityPayloads == {1, 3, 7}

\* one coordinator of any of the accounts
NextIdentity ==
    \/ \E now \in ClockStart..(ClockStart + MaxClock) : RefreshStart(1, now, MaxViewCycles, FALSE)
    \/ \E k \in TaskCalls : Acquire(k)
    \/ \E k \in SchedCalls \cup TaskCalls, r \in PlainHtml : LoginPage(k, r)
    \/ \E k \in SchedCalls \cup TaskCalls, r \in PlainHtml : LoginPost(k, r)
    \/ \E k \in SchedCalls \cup TaskCalls, r \in PlainHtml : LoginRefresh(k, r)
    \/ \E k \in SchedCalls \cup TaskCalls :
          \E r \in EndpointResponses(k, PlainJson(IdentityBodies), PlainJson(IdentityPayloads)) :
             Endpoint(k, r)
    \/ GatherDone(1)

SpecIdentity == (\E account \in Accounts : InitFor(account)) /\ [][NextIdentity]_vars

\* the forms the flow is given and the credentials a reauth may bring
DiagUsernames == {"Ann@Gym.nl", "ann@box.nl"}
DiagPasswords == {"pw1", "pw2"}
FlowInputs ==
    {FlowInput("https://fitblocks.nl/", "/physicsperformance/", u, pw, "", "")
        : u \in DiagUsernames, pw \in DiagPasswords}
    \cup {FlowInput("https://fitblocks.nl/", "/physicsperformance/", "Ann@Gym.nl", "pw1",
                    " Coach ", "Gym")}
\* the entries the flow leaves: after the user step, and after a reauth
ConfigEntries ==
    {async_step_user(form) : form \in FlowInputs}
    \cup {async_step_reauth_confirm(async_step_user(form), "ann_lee@gym.nl", "pw2")
             : form \in FlowInputs}
DiagBodies == {1}
DiagPayloads == {1}

\* one coordinator and the diagnostics downloads of config entries
NextDiagnostics ==
    \/ \E now \in ClockStart..(ClockStart + MaxClock) : RefreshStart(1, now, MaxViewCycles, FALSE)
    \/ \E k \in TaskCalls : Acquire(k)
    \/ \E k \in SchedCalls \cup TaskCalls, r \in PlainHtml : LoginPage(k, r)
    \/ \E k \in SchedCalls \cup TaskCalls, r \in PlainHtml : LoginPost(k, r)
    \/ \E k \in SchedCalls \cup TaskCalls, r \in PlainHtml : LoginRefresh(k, r)
    \/ \E k \in SchedCalls \cup TaskCalls :
          \E r \in EndpointResponses(k, PlainJson(DiagBodies), PlainJson(DiagPayloads)) :
             Endpoint(k, r)
    \/ GatherDone(1)
    \/ \E entry \in ConfigEntries, loaded \in BOOLEAN : RenderDiagnostics(entry, loaded)

SpecDiagnostics == Init /\ [][NextDiagnostics]_vars

\* what the options form is given as display name
OptionInputs == {"", " Coach ", "Lee "}

\* the entries the setup flow and the options flow leave
NamedEntries ==
    {async_step_user(form) : form \in FlowInputs}
    \cup {async_step_init(async_step_user(form), display_name_input)
             : form \in FlowInputs, display_name_input \in OptionInputs}

\* one coordinator and the setup of the platforms of config entries
NextNames ==
    \/ \E now \in ClockStart..(ClockStart + MaxClock) : RefreshStart(1, now, MaxViewCycles, FALSE)
    \/ \E k \in TaskCalls : Acquire(k)
    \/ \E k \in SchedCalls \cup TaskCalls, r \in PlainHtml : LoginPage(k, r)
    \/ \E k \in SchedCalls \cup TaskCalls, r \in PlainHtml : LoginPost(k, r)
    \/ \E k \in SchedCalls \cup TaskCalls, r \in PlainHtml : LoginRefresh(k, r)
    \/ \E k \in SchedCalls \cup TaskCalls :
          \E r \in EndpointResponses(k, PlainJson(DiagBodies), PlainJson(DiagPayloads)) :
             Endpoint(k, r)
    \/ GatherDone(1)
    \/ \E entry \in NamedEntries : SetupPlatforms(entry)

SpecNames == Init /\ [][NextNames]_vars

\* the sensor platform's setup and its lesson sensors, next to the cycles
NextSetup ==
    \/ \E now \in ClockStart..(ClockStart + MaxClock) : RefreshStart(1, now, MaxViewCycles, FALSE)
    \/ \E k \in TaskCalls : Acquire(k)
    \/ \E k \in SchedCalls \cup TaskCalls, r \in PlainHtml : LoginPage(k, r)
    \/ \E k \in SchedCalls \cup TaskCalls, r \in PlainHtml : LoginPost(k, r)
    \/ \E k \in SchedCalls \cup TaskCalls, r \in PlainHtml : LoginRefresh(k, r)
    \/ \E k \in SchedCalls \cup TaskCalls :
          \E r \in EndpointResponses(k, PlainJson(ViewBodies), PlainJson(ViewPayloads)) :
             Endpoint(k, r)
    \/ GatherDone(1)
    \/ \E now \in RenderInstants : SetupSensors(now)
    \/ \E event_key \in EventKeys : RenderLessonValue(event_key)
    \/ \E event_key \in EventKeys : RenderLessonAttributes(event_key)

SpecSetup == Init /\ [][NextSetup]_vars

\* schedules with events whose start or end cannot be read
SkipBodies == {6, 10, 11}
SkipPayloads == {1, 3}

\* one coordinator on those schedules
NextSkips ==
    \/ \E now \in ClockStart..(ClockStart + MaxClock) : RefreshStart(1, now, MaxViewCycles, FALSE)
    \/ \E k \in TaskCalls : Acquire(k)
    \/ \E k \in SchedCalls \cup TaskCalls, r \in PlainHtml : LoginPage(k, r)
    \/ \E k \in SchedCalls \cup TaskCalls, r \in PlainHtml : LoginPost(k, r)
    \/ \E k \in SchedCalls \cup TaskCalls, r \in PlainHtml : LoginRefresh(k, r)
    \/ \E k \in SchedCalls \cup TaskCalls :
          \E r \in EndpointResponses(k, PlainJson(SkipBodies), PlainJson(SkipPayloads)) :
             Endpoint(k, r)
    \/ GatherDone(1)

SpecSkips == Init /\ [][NextSkips]_vars

\* the instants a service call may name for start and end
Instants == 1..2

\* the service handlers, called by up to MaxActs concurrent callers
NextService ==
    \/ \E k \in ActCalls, sel \in EntrySelections, ready \in BOOLEAN :
          \/ \E start, end \in Instants : Service(k, "enroll", sel, ready, start, end)
          \/ Service(k, "unenroll", sel, ready, 0, 0)
    \/ \E k \in ActCalls, r \in PlainHtml : LoginPage(k, r)
    \/ \E k \in ActCalls, r \in HtmlResponses : LoginPost(k, r)
    \/ \E k \in ActCalls, r \in PlainHtml : LoginRefresh(k, r)
    \/ \E k \in ActCalls :
          \E r \in EndpointResponses(k, JsonResponses({1}), JsonResponses({1})) : Endpoint(k, r)

SpecService == Init /\ [][NextService]_vars

(***************************************************************************)
(* Properties                                                              *)
(***************************************************************************)
\* the detail tasks that hold a permit of _detail_semaphore, and those whose
\* classTypeDetails request is in flight
PermitHolders ==
    {k \in TaskCalls : calls[k].pc \in {"login_get", "login_post", "login_refresh", "endpoint"}}
DetailsInFlight == {k \in TaskCalls : calls[k].pc = "endpoint"}

\* C1: at every moment at most MAX_CONCURRENT_EVENT_DETAIL_REQUESTS detail
\* tasks hold a permit, hence at most that many classTypeDetails requests are
\* in flight, also when cycles overlap; a task that waits for a permit has
\* sent no request.
C1_DetailRequestsBounded ==
    /\ Cardinality(PermitHolders) <= MAX_CONCURRENT_EVENT_DETAIL_REQUESTS
    /\ Cardinality(DetailsInFlight) <= MAX_CONCURRENT_EVENT_DETAIL_REQUESTS
    /\ \A k \in TaskCalls : calls[k].pc = "sem_wait" => calls[k].reqs = <<>>

\* two overlapping cycles with more targets than permits: as many requests in
\* flight as there are permits, and a target waiting
C1_Witness ==
    /\ \A c \in Slots : cyc[c].pc = "gather"
    /\ Cardinality(DetailsInFlight) = MAX_CONCURRENT_EVENT_DETAIL_REQUESTS
    /\ \E k \in TaskCalls : calls[k].pc = "sem_wait"

\* the cycle of slot c went through asyncio.gather and ended
Gathered(c) == cyc[c].pc = "done" /\ cyc[c].refs # <<>>
\* its gathered results, and the schedule as the schedule fetch returned it
CycleResults(c) == Results(calls, c, Len(cyc[c].refs))
Fetched(c) == ScheduleBodies[calls[SchedCall(c)].res]
Succeeded(result) == result.err = NoError
Failed(result) == result.err # NoError

\* event ev is event raw enriched with the fields of payload p
EnrichedBy(ev, raw, p) ==
    IF ~p.isdict THEN ev = raw
    ELSE /\ ev.description = (IF Truthy(p.description) THEN p.description ELSE raw.description)
         /\ ev.credits_remaining =
               (IF p.creditsRemaining = Absent THEN raw.credits_remaining ELSE p.creditsRemaining)
         /\ ev.total_possible_registrations =
               (IF p.totalPossibleRegistrations = Absent THEN raw.total_possible_registrations
                ELSE p.totalPossibleRegistrations)
         /\ ev.total_registrations =
               (IF p.totalRegistrations = Absent THEN raw.total_registrations
                ELSE p.totalRegistrations)
         /\ ev.total_users_on_waiting_list =
               (IF p.totalUsersOnWaitingList = Absent THEN raw.total_users_on_waiting_list
                ELSE p.totalUsersOnWaitingList)
         /\ ev.is_full = (IF p.isFull = Absent THEN raw.is_full ELSE p.isFull)
         /\ ev.scheduleRegistrationId =
               (IF Truthy(p.scheduleRegistrationId) THEN p.scheduleRegistrationId
                ELSE raw.scheduleRegistrationId)
         /\ ev.eventId = raw.eventId /\ ev.start = raw.start /\ ev.end = raw.end
         /\ ev.subscribed = raw.subscribed

\* the Schedule of slot c holds exactly the successfully fetched events
\* enriched, every other event as the schedule fetch returned it
ExactlySucceededEnriched(c) ==
    LET refs == cyc[c].refs
        results == CycleResults(c)
        raw == Fetched(c).events.items
        pub == cyc[c].d.events.items
    IN  /\ Len(pub) = Len(raw)
        /\ \A i \in 1..Len(refs) :
              IF Succeeded(results[i])
              THEN EnrichedBy(pub[refs[i]], raw[refs[i]], DetailPayloads[results[i].res])
              ELSE pub[refs[i]] = raw[refs[i]]
        /\ \A j \in 1..Len(raw) : (\A i \in 1..Len(refs) : refs[i] # j) => pub[j] = raw[j]

\* C2: a detail fetch that fails gives its permit back (it blocks no
\* sibling), and a cycle some of whose detail fetches failed still publishes
\* a Schedule, in which exactly the events whose fetch succeeded are enriched
\* and the events whose fetch failed are as the schedule fetch returned them.
C2_DetailFailuresContained ==
    /\ sem_value = MAX_CONCURRENT_EVENT_DETAIL_REQUESTS - Cardinality(PermitHolders)
    /\ \A c \in Slots :
          (Gathered(c) /\ \E i \in 1..Len(cyc[c].refs) : Failed(CycleResults(c)[i])) =>
             /\ cyc[c].outcome = "published"
             /\ data = cyc[c].d
             /\ ExactlySucceededEnriched(c)

\* the last_known_credits a Schedule has to carry: the figure of the most
\* recent cycle that collected one, no key when none ever did
StickyCredits == IF last_collected = JNull THEN Absent ELSE last_collected

\* C3: the published Schedule carries the last_known_credits of the most
\* recent cycle that collected a credits figure (its own, or that of an
\* earlier cycle, whatever cycles came in between), and carries none only
\* when no cycle ever collected one.
C3_CreditsSticky ==
    data # NoData => data.last_known_credits = StickyCredits

\* C4: a cycle in which a successfully fetched payload carries an integer
\* creditsRemaining sets last_known_credits, on the published Schedule and in
\* the coordinator, to the maximum of the figures collected in that cycle.
C4_CreditsMaximum ==
    \A c \in Slots :
       (Gathered(c) /\ CollectedSet(CycleResults(c)) # {}) =>
          LET top == SetMax(CollectedSet(CycleResults(c)))
          IN  /\ cyc[c].outcome = "published"
              /\ data = cyc[c].d
              /\ data.last_known_credits = JInt(top)
              /\ last_known_credits = JInt(top)

\* C5: when the schedule fetch of a cycle raises, the cycle ends as
\* re-authentication required for an auth error (also one of the login the
\* fetch triggered) and as update failed for every other error; the
\* published Schedule stays as it was and no detail task exists.
C5_FetchErrorEscalates ==
    [][\A c \in Slots :
          (cyc[c].pc = "fetch" /\ cyc'[c].pc = "done" /\ calls'[SchedCall(c)].err # NoError) =>
             /\ calls'[SchedCall(c)].err = AuthError => cyc'[c].outcome = "reauth"
             /\ calls'[SchedCall(c)].err # AuthError => cyc'[c].outcome = "failed"
             /\ data' = data
             /\ last_known_credits' = last_known_credits
             /\ \A i \in 1..MaxEvents : calls'[TaskCall(c, i)].pc = "free"]_vars

\* a cycle ended as re-authentication required by the login its schedule
\* fetch triggered: no detail task exists
C5_Witness ==
    \E c \in Slots :
       /\ cyc[c].pc = "done" /\ cyc[c].outcome = "reauth"
       /\ calls[SchedCall(c)].login = "failed"
       /\ calls[SchedCall(c)].err = AuthError
       /\ \A i \in 1..MaxEvents : calls[TaskCall(c, i)].pc = "free"

\* C6: a refresh cycle ends as a published Schedule, as re-authentication
\* required or as update failed: no other exception leaves
\* _async_update_data.
C6_NoUnhandledFault ==
    \A c \in Slots :
       cyc[c].pc = "done" => cyc[c].outcome \in {"published", "reauth", "failed"}

\* C7: when the endpoint of an authenticated operation answers 401, the
\* client is no longer logged in afterwards.
C7_UnauthorizedResetsSession ==
    [][\A k \in CallIds :
          (calls[k].pc = "endpoint" /\ calls'[k].pc = "done" /\ calls'[k].st = 401) =>
             ~logged_in']_vars

\* request req is among those the call sent
Requested(call, req) == \E i \in 1..Len(call.reqs) : call.reqs[i] = req
TimesRequested(call, req) == Cardinality({i \in 1..Len(call.reqs) : call.reqs[i] = req})

\* C8: an operation that starts on a valid session (logged in, token
\* stored) runs no login and sends its endpoint request only; any other
\* first runs async_login, once; when that login fails the call ends with its
\* error and never requests its endpoint; the endpoint is requested only on a
\* valid session or after the login succeeded.
C8_EnsureLoggedInFirst ==
    \A k \in CallIds :
       LET c == calls[k]
       IN  c.pc \notin {"free", "sem_wait"} =>
              /\ c.pre => c.logins = 0 /\ c.reqs = <<EndpointOf(c.op)>>
              /\ ~c.pre => c.logins = 1 /\ c.reqs[1] = "GET login"
              /\ TimesRequested(c, "GET login") = c.logins
              /\ c.login = "failed" =>
                    /\ c.pc = "done" /\ IsFitblocksError(c.err)
                    /\ ~Requested(c, EndpointOf(c.op))
              /\ Requested(c, EndpointOf(c.op)) =>
                    /\ c.pre \/ c.login = "ok"
                    /\ TimesRequested(c, EndpointOf(c.op)) = 1
                    /\ c.reqs[Len(c.reqs)] = EndpointOf(c.op)

\* a call whose login failed, next to a call that logged in and requested
\* its endpoint
C8_Witness ==
    \E k, j \in CallIds :
       /\ calls[k].login = "failed" /\ calls[k].pc = "done" /\ calls[k].logins = 1
       /\ calls[j].login = "ok" /\ Requested(calls[j], EndpointOf(calls[j].op))

\* C9: a logged-in client has a token stored; and whenever a request goes
\* to one of the four endpoints its X-CSRF-TOKEN header holds the token the
\* client stores at that moment, which is not empty.
C9_TokenWithSession ==
    /\ [](logged_in => csrf_token # NoToken)
    /\ [][\A k \in CallIds :
             (calls[k].pc # "endpoint" /\ calls'[k].pc = "endpoint") =>
                /\ calls'[k].reqs[Len(calls'[k].reqs)] \in Endpoints
                /\ calls'[k].hdr = csrf_token'
                /\ calls'[k].hdr # NoToken]_vars

\* an enroll request in flight on a logged-in client, its header the token the
\* CSRF refresh of its login stored
C9_Witness ==
    \E k \in CallIds :
       /\ logged_in
       /\ calls[k].pc = "endpoint" /\ calls[k].op = "enroll"
       /\ calls[k].rf = "served" /\ calls[k].hdr = csrf_token

C11_LoginFailures ==
    \A k \in CallIds :
        LET call == calls[k] IN
        /\ call.page = "notoken" =>
               /\ call.pc = "done"
               /\ call.login = "failed"
               /\ call.err = BaseError
               /\ ~Requested(call, "POST login")
               /\ call.pst = 0
        /\ call.pst \in {401, 403} =>
               /\ call.pc = "done"
               /\ call.login = "failed"
               /\ call.err = AuthError
        /\ (call.pst # 0 /\ call.pst \notin {200, 302, 401, 403}) =>
               /\ call.pc = "done"
               /\ call.login = "failed"
               /\ call.err = BaseError

\* the three cases side by side: no token, a 403 and a 500 on the POST
C11_Witness ==
    \E j, k \in CallIds :
        /\ calls[j].pst = 403 /\ calls[j].err = AuthError
        /\ calls[j].page = "token"
        /\ \/ calls[k].page = "notoken" /\ calls[k].err = BaseError
           \/ calls[k].pst = 500 /\ calls[k].err = BaseError

(***************************************************************************)
(* C12: each of the four operations maps the status of its own request the *)
(* same way: 401 raises AuthError, every other status but 200 (403 too)    *)
(* raises ApiError, whose message carries that status, and a result is     *)
(* returned only for a 200.                                                *)
(***************************************************************************)
C12_StatusMapping ==
    \A k \in CallIds :
        LET call == calls[k] IN
        /\ (call.pc = "done" /\ call.st = 401) => call.err = AuthError /\ call.res = NoBody
        /\ (call.pc = "done" /\ call.st \notin {0, 200, 401}) =>
               call.err = ApiError /\ call.res = NoBody
        /\ call.res # NoBody => call.st = 200 /\ call.err = NoError /\ call.pc = "done"
        /\ call.err = ApiError => call.st \notin {0, 200, 401}

\* an unenroll answered 403 ended with ApiError, an enroll answered 401 with AuthError
C12_Witness ==
    \E j, k \in CallIds :
        /\ calls[j].op = "unenroll" /\ calls[j].pc = "done"
        /\ calls[j].st = 403 /\ calls[j].err = ApiError
        /\ calls[k].op = "enroll" /\ calls[k].pc = "done"
        /\ calls[k].st = 401 /\ calls[k].err = AuthError

(***************************************************************************)
(* Enrichment selection, stated over the schedule as it was fetched.       *)
(***************************************************************************)
\* slot c has fetched a schedule object with an event list and selected
Selected(c) ==
    /\ cyc[c].pc \in {"gather", "done"}
    /\ calls[SchedCall(c)].pc = "done"
    /\ calls[SchedCall(c)].err = NoError
    /\ Fetched(c).isdict
    /\ Fetched(c).events.kind = "list"

FetchedEvents(c) == Fetched(c).events.items

\* the event carries a class-type id, an event id and parseable start, end
CompleteTuple(ev) ==
    /\ ev.isdict
    /\ Truthy(ev.classTypeId)
    /\ Truthy(ev.eventId) \/ Truthy(ev.id)
    /\ ev.start.t = "str" /\ ev.start.shape \in {"iso", "space"}
    /\ ev.end.t = "str" /\ ev.end.shape \in {"iso", "space"}

SubscribedTrue(ev) == ev.isdict /\ ev.subscribed = JBool(TRUE)

\* the detail tasks of slot c that fetch event j of its schedule
TasksFor(c, j) == {i \in 1..Len(cyc[c].refs) : cyc[c].refs[i] = j}

DetailRequests(c, i) == TimesRequested(calls[TaskCall(c, i)], EndpointOf("details"))

(***************************************************************************)
(* C13: in a cycle whose schedule fetch succeeded, every event with        *)
(* subscribed = true and a complete tuple has exactly one detail task, be  *)
(* its start before or after now, and once the cycle is done that task has *)
(* sent exactly one classTypeDetails request.                              *)
(***************************************************************************)
C13_EnrolledFetchedOnce ==
    \A c \in Slots :
        Selected(c) =>
            \A j \in 1..Len(FetchedEvents(c)) :
                (SubscribedTrue(FetchedEvents(c)[j]) /\ CompleteTuple(FetchedEvents(c)[j])) =>
                    /\ Cardinality(TasksFor(c, j)) = 1
                    /\ cyc[c].pc = "done" =>
                           \A i \in TasksFor(c, j) : DetailRequests(c, i) = 1

\* a finished cycle fetched one subscribed event that had started before
\* now and one that starts after it
C13_Witness ==
    \E c \in Slots :
        /\ Selected(c) /\ cyc[c].pc = "done"
        /\ \E j, l \in 1..Len(FetchedEvents(c)) :
              /\ SubscribedTrue(FetchedEvents(c)[j]) /\ CompleteTuple(FetchedEvents(c)[j])
              /\ SubscribedTrue(FetchedEvents(c)[l]) /\ CompleteTuple(FetchedEvents(c)[l])
              /\ parse_fitblocks_datetime(FetchedEvents(c)[j].start) < cyc[c].now
              /\ parse_fitblocks_datetime(FetchedEvents(c)[l].start) > cyc[c].now
              /\ \A i \in TasksFor(c, j) \cup TasksFor(c, l) : DetailRequests(c, i) = 1

(***************************************************************************)
(* C14: when at least one event of the fetched schedule has subscribed =   *)
(* true, no detail request is sent for an event that is not subscribed.    *)
(***************************************************************************)
C14_FallbackOnlyWithoutSubscribed ==
    \A c \in Slots :
        (Selected(c) /\ \E j \in 1..Len(FetchedEvents(c)) : SubscribedTrue(FetchedEvents(c)[j])) =>
            \A i \in 1..Len(cyc[c].refs) :
                DetailRequests(c, i) > 0 => SubscribedTrue(FetchedEvents(c)[cyc[c].refs[i]])

(***************************************************************************)
(* C15: when no event of the fetched schedule is subscribed, the cycle has *)
(* exactly one detail task, for the event of least start among those with  *)
(* a complete tuple and start >= now (the first of them in schedule order  *)
(* when several share that start), and that task sends one request; when   *)
(* there is no such event the cycle has no detail task, sends no detail    *)
(* request and publishes its Schedule.                                     *)
(***************************************************************************)
Upcoming(c) ==
    {j \in 1..Len(FetchedEvents(c)) :
        /\ CompleteTuple(FetchedEvents(c)[j])
        /\ parse_fitblocks_datetime(FetchedEvents(c)[j].start) >= cyc[c].now}

Soonest(c) ==
    {j \in Upcoming(c) :
        \A l \in Upcoming(c) :
            parse_fitblocks_datetime(FetchedEvents(c)[j].start)
                <= parse_fitblocks_datetime(FetchedEvents(c)[l].start)}

NoneSubscribed(c) ==
    \A j \in 1..Len(FetchedEvents(c)) :
        FetchedEvents(c)[j].isdict => FetchedEvents(c)[j].subscribed = JBool(FALSE)

C15_FallbackSelection ==
    \A c \in Slots :
        (Selected(c) /\ NoneSubscribed(c)) =>
            IF Upcoming(c) = {}
            THEN /\ cyc[c].refs = <<>>
                 /\ \A i \in 1..MaxEvents : calls[TaskCall(c, i)].reqs = <<>>
                 /\ cyc[c].pc = "done" /\ cyc[c].outcome = "published"
            ELSE /\ Len(cyc[c].refs) = 1
                 /\ cyc[c].refs[1] \in Soonest(c)
                 /\ \A l \in Soonest(c) : cyc[c].refs[1] <= l
                 /\ cyc[c].pc = "done" => DetailRequests(c, 1) = 1
                 /\ \A i \in 2..MaxEvents : calls[TaskCall(c, i)].reqs = <<>>

\* a finished cycle chose the first of two events that start together,
\* after an event that had already started
C15_Witness ==
    \E c \in Slots :
        /\ Selected(c) /\ NoneSubscribed(c) /\ cyc[c].pc = "done"
        /\ Cardinality(Soonest(c)) = 2
        /\ \E j \in 1..Len(FetchedEvents(c)) :
              /\ CompleteTuple(FetchedEvents(c)[j])
              /\ parse_fitblocks_datetime(FetchedEvents(c)[j].start) < cyc[c].now
        /\ DetailRequests(c, 1) = 1

\* a finished cycle found nothing upcoming and published without a request
C15_WitnessNone ==
    \E c \in Slots :
        /\ Selected(c) /\ NoneSubscribed(c) /\ Upcoming(c) = {}
        /\ cyc[c].outcome = "published"

(***************************************************************************)
(* C16: on every event of the published Schedule, enrichment selection,    *)
(* the calendar view, the enrolled-count sensor, the credits sensor and    *)
(* lesson-sensor creation all take the event for enrolled exactly when its *)
(* subscribed field is the boolean true.                                   *)
(***************************************************************************)
C16_OneEnrolmentPredicate ==
    (data.isdict /\ data.events.kind = "list") =>
        \A j \in 1..Len(data.events.items) :
            LET ev == data.events.items[j]
                is_true == ev.isdict /\ ev.subscribed = JBool(TRUE)
            IN  /\ (ev.isdict /\ is_user_enrolled(ev)) <=> is_true
                /\ calendar_shows_enrolled(ev) <=> is_true
                /\ enrolled_count_enrolled(ev) <=> is_true
                /\ credits_sensor_enrolled(ev) <=> is_true
                /\ lesson_sensor_enrolled(ev) <=> is_true

(***************************************************************************)
(* C18: the permits that are out are exactly those of the detail tasks     *)
(* between acquiring and ending, whether they end with a result or an      *)
(* error: when no detail task is running, and so after every refresh       *)
(* cycle, all MAX_CONCURRENT_EVENT_DETAIL_REQUESTS permits are available.  *)
(***************************************************************************)
C18_PermitsReleased ==
    /\ sem_value = MAX_CONCURRENT_EVENT_DETAIL_REQUESTS - Cardinality(PermitHolders)
    /\ PermitHolders = {} => sem_value = MAX_CONCURRENT_EVENT_DETAIL_REQUESTS
    /\ (\A c \in Slots : cyc[c].pc \in {"idle", "fetch", "done"}) =>
           sem_value = MAX_CONCURRENT_EVENT_DETAIL_REQUESTS

\* a cycle ended with a failed and a successful detail fetch, and every
\* permit is back
C18_Witness ==
    \E c \in Slots :
        /\ Gathered(c)
        /\ \E i, j \in 1..Len(cyc[c].refs) :
              Failed(CycleResults(c)[i]) /\ Succeeded(CycleResults(c)[j])
        /\ sem_value = MAX_CONCURRENT_EVENT_DETAIL_REQUESTS

(***************************************************************************)
(* Re-running a cycle: the finished cycle of slot c and the one before it  *)
(* got the same answers when schedule/json answered alike and every event  *)
(* that both fetched details for answered alike.                           *)
(***************************************************************************)
Rerun(c) ==
    /\ cyc[c].pc = "done"
    /\ cyc[c].prev.valid
    /\ calls[SchedCall(c)].err = cyc[c].prev.serr
    /\ calls[SchedCall(c)].res = cyc[c].prev.sres
    /\ \A i \in 1..Len(cyc[c].refs), j \in 1..Len(cyc[c].prev.refs) :
          cyc[c].refs[i] = cyc[c].prev.refs[j] => CycleResults(c)[i] = cyc[c].prev.results[j]

SameSnapshot(c) ==
    /\ cyc[c].outcome = cyc[c].prev.outcome
    /\ cyc[c].outcome = "published" => cyc[c].d = cyc[c].prev.d

\* C17 as stated: a cycle re-run with the same upstream answers returns the
\* Schedule its predecessor returned, whatever the two refresh instants.
C17_RerunIdentical ==
    \A c \in Slots : Rerun(c) => SameSnapshot(c)

(***************************************************************************)
(* C17, amended: a cycle re-run with the same upstream answers returns the *)
(* Schedule its predecessor returned (enriched events, user_first_name and *)
(* last_known_credits included), from any coordinator state the            *)
(* predecessor started in, for any two refresh instants at which the same  *)
(* events are selected for enrichment.                                     *)
(***************************************************************************)
C17_RerunIdenticalSameTargets ==
    \A c \in Slots :
        (Rerun(c) /\ cyc[c].refs = cyc[c].prev.refs) => SameSnapshot(c)

\* a cycle re-run at a later instant with the same targets and answers,
\* with a credits figure carried forward, published the same Schedule
C17_Witness ==
    \E c \in Slots :
        /\ Rerun(c) /\ cyc[c].refs = cyc[c].prev.refs
        /\ cyc[c].refs # <<>>
        /\ cyc[c].now > cyc[c].prev.now
        /\ cyc[c].outcome = "published"
        /\ cyc[c].d = cyc[c].prev.d
        /\ cyc[c].d.last_known_credits # Absent
        /\ CollectedSet(CycleResults(c)) = {}

(***************************************************************************)
(* C19: an enroll service call whose end is not after its start is         *)
(* rejected with a ServiceValidationError before the client is called: its *)
(* handler sends no request (no login, no enroll) and requests no          *)
(* coordinator refresh.                                                    *)
(***************************************************************************)
ValidationKeys ==
    {"config_entry_not_found", "config_entry_not_loaded", "no_loaded_entries",
     "multiple_entries_specify_id", "config_entry_not_ready", "end_time_after_start_time"}

C19_EnrollEndBeforeStartRejected ==
    \A k \in ActCalls :
        (svc[k].op = "enroll" /\ svc[k].end <= svc[k].start) =>
            /\ svc[k].status = "rejected"
            /\ svc[k].key \in ValidationKeys
            /\ calls[k].pc = "free"
            /\ calls[k].reqs = <<>>
            /\ svc[k].refresh_requests = 0

\* an enroll with end = start on a loaded, ready entry was rejected for its
\* instants, while another handler's call is under way
C19_Witness ==
    \E j, k \in ActCalls :
        /\ svc[k].op = "enroll" /\ svc[k].end = svc[k].start
        /\ svc[k].key = "end_time_after_start_time"
        /\ calls[k].reqs = <<>>
        /\ svc[j].status = "running" /\ calls[j].reqs # <<>>

(***************************************************************************)
(* C20: a handler of enroll or unenroll requests a coordinator refresh at  *)
(* most once, and has requested one exactly when its client call has       *)
(* returned a result; a handler that was rejected, or whose client call    *)
(* failed with an auth error or another error, has requested none; and a   *)
(* handler calls the client only for a config entry that is loaded and has *)
(* runtime data.                                                           *)
(***************************************************************************)
LoadedEntrySelected(run) ==
    \/ run.sel.given /\ run.sel.entry = "loaded"
    \/ ~run.sel.given /\ run.sel.loaded = 1

C20_RefreshOnceAfterSuccess ==
    \A k \in ActCalls :
        LET run == svc[k]
            call == calls[k]
            succeeded == /\ run.status # "none"
                         /\ call.pc = "done" /\ call.err = NoError
                         /\ call.op = run.op
                         /\ call.st = 200
                         /\ TimesRequested(call, EndpointOf(run.op)) = 1
        IN  /\ run.refresh_requests \in {0, 1}
            /\ run.refresh_requests = 1 <=> succeeded
            /\ run.status \in {"rejected", "failed", "fault", "running"} => run.refresh_requests = 0
            /\ (call.pc = "done" /\ call.err # NoError) => run.status \in {"failed", "fault"}
            /\ (call.pc = "done" /\ call.err = AuthError) => run.key = "service_auth_failed"
            /\ call.pc # "free" => LoadedEntrySelected(run) /\ run.ready

\* one handler requested its refresh after a successful unenroll, another
\* failed on an auth error and requested none
C20_Witness ==
    \E j, k \in ActCalls :
        /\ svc[j].op = "unenroll" /\ svc[j].status = "refreshed"
        /\ svc[j].refresh_requests = 1 /\ calls[j].st = 200
        /\ svc[k].status = "failed" /\ svc[k].key = "service_auth_failed"
        /\ svc[k].refresh_requests = 0

(***************************************************************************)
(* The calendar, stated over the published Schedule.                       *)
(***************************************************************************)
\* start and end of the event are strings a datetime can be read from
ValidStartEnd(ev) ==
    /\ ev.start.t = "str" /\ ev.start.shape \in {"iso", "space"}
    /\ ev.end.t = "str" /\ ev.end.shape \in {"iso", "space"}

\* the subscribed events of the Schedule with valid start and end, as the
\* indices of its event list
CalendarItems(d) ==
    {j \in 1..Len(ViewEvents(d)) :
        SubscribedTrue(ViewEvents(d)[j]) /\ ValidStartEnd(ViewEvents(d)[j])}

StartOf(d, j) == parse_fitblocks_datetime(ViewEvents(d)[j].start)
EndOf(d, j) == parse_fitblocks_datetime(ViewEvents(d)[j].end)

\* the events of a set of indices, in schedule order, as the calendar shows them
RECURSIVE ShownAs(_, _, _)
ShownAs(d, S, j) ==
    IF j > Len(ViewEvents(d)) THEN <<>>
    ELSE IF j \in S
    THEN <<[start |-> StartOf(d, j), end |-> EndOf(d, j),
            uid |-> ViewEvents(d)[j].eventId]>> \o ShownAs(d, S, j + 1)
    ELSE ShownAs(d, S, j + 1)

Brief(evs) == [i \in 1..Len(evs) |-> [start |-> evs[i].start, end |-> evs[i].end, uid |-> evs[i].uid]]

(***************************************************************************)
(* C21: a range query [start_date, end_date) returns exactly the           *)
(* subscribed events with valid start and end whose end is after           *)
(* start_date and whose start is before end_date.                          *)
(***************************************************************************)
C21_RangeQueryHalfOpen ==
    shown.view = "calendar_range" =>
        /\ ~shown.raised
        /\ Brief(shown.out) =
              ShownAs(data, {j \in CalendarItems(data) :
                               /\ EndOf(data, j) > shown.start_date
                               /\ StartOf(data, j) < shown.end_date}, 1)

(***************************************************************************)
(* C22: the calendar's current-or-next event is, among the subscribed      *)
(* events that end after now, one of earliest start; none when no          *)
(* subscribed event ends after now; never an event that has ended.         *)
(***************************************************************************)
C22_CurrentOrNext ==
    shown.view = "calendar_event" =>
        LET live == {j \in CalendarItems(data) : EndOf(data, j) > shown.now}
        IN  /\ ~shown.raised
            /\ live = {} => shown.out = NoEvent
            /\ live # {} =>
                  \E j \in live :
                      /\ \A l \in live : StartOf(data, j) <= StartOf(data, l)
                      /\ shown.out.start = StartOf(data, j)
                      /\ shown.out.end = EndOf(data, j)
                      /\ shown.out.uid = ViewEvents(data)[j].eventId

(***************************************************************************)
(* C23: a render of any view, in any state and as often as one likes,      *)
(* sends no request, starts no refresh and leaves the published Schedule,  *)
(* the coordinator's last_known_credits and the client's session as they   *)
(* were.                                                                   *)
(***************************************************************************)
C23_RenderIsPureRead ==
    [][shown'.view # "none" =>
          /\ calls' = calls
          /\ cyc' = cyc /\ refreshes' = refreshes /\ sem_value' = sem_value
          /\ data' = data
          /\ last_known_credits' = last_known_credits
          /\ csrf_token' = csrf_token /\ logged_in' = logged_in /\ username' = username]_vars

\* a lesson sensor's attributes were rendered while a detail request of a
\* refresh cycle was in flight
C23_Witness ==
    /\ shown.view = "lesson_attributes" /\ shown.out.found
    /\ cyc[1].pc = "gather"
    /\ \E k \in TaskCalls : calls[k].pc = "endpoint"

(***************************************************************************)
(* C24: at every render the credits sensor's value is the published        *)
(* Schedule's last_known_credits, and null exactly when the Schedule       *)
(* carries none.                                                           *)
(***************************************************************************)
C24_CreditsSensorIsSticky ==
    shown.view = "credits" =>
        /\ ~shown.raised
        /\ shown.out = IF data.isdict /\ data.last_known_credits.t # "absent"
                       THEN data.last_known_credits
                       ELSE JNull

\* C26: every 200 answer to enroll or unenroll, whatever its body, gives the
\* caller a result and no failure: enroll returns the body's status when the
\* body has a status field and the success marker otherwise, unenroll
\* returns success
C26_Http200IsSuccess ==
    \A k \in ActCalls :
        (/\ calls[k].pc = "done"
         /\ calls[k].op \in {"enroll", "unenroll"}
         /\ calls[k].st = 200
         /\ calls[k].got # ReadFail)
        => /\ calls[k].err = NoError
           /\ calls[k].op = "unenroll" => calls[k].ret = "True"
           /\ calls[k].op = "enroll" =>
                 calls[k].ret = IF ActBody(calls[k].got).isdict
                                   /\ ActBody(calls[k].got).status.t # "absent"
                                THEN ActBody(calls[k].got).status.s
                                ELSE "success"

\* the events of a Schedule that carry a first name, by position
NameCarriers(d) ==
    {i \in 1..Len(RawEvents(d)) :
        RawEvents(d)[i].isdict /\ Truthy(RawEvents(d)[i].user_first_name)}

\* C27: the user_first_name of a published Schedule is the first name of the
\* first of its events that carries one, and is absent when none does,
\* whatever the Schedule of the cycle before held
C27_FirstNamePerCycle ==
    \A c \in Slots :
        cyc[c].outcome = "published" =>
            IF NameCarriers(cyc[c].d) = {}
            THEN cyc[c].d.user_first_name = Absent
            ELSE \E i \in NameCarriers(cyc[c].d) :
                    /\ \A j \in NameCarriers(cyc[c].d) : i <= j
                    /\ cyc[c].d.user_first_name = RawEvents(cyc[c].d)[i].user_first_name

\* a cycle that enriched events published a Schedule without a first name
\* and with the credits figure of the cycle before it, whose Schedule had a
\* first name
C27_Witness ==
    \E c \in Slots :
          /\ cyc[c].outcome = "published" /\ cyc[c].prev.valid
          /\ cyc[c].prev.outcome = "published"
          /\ Truthy(cyc[c].prev.d.user_first_name)
          /\ cyc[c].d.user_first_name = Absent
          /\ cyc[c].d.last_known_credits = cyc[c].prev.d.last_known_credits
          /\ cyc[c].d.last_known_credits # Absent
          /\ cyc[c].refs # <<>>
          /\ CollectedSet(CycleResults(c)) = {}

\* the roster entries of payload p that the two identity paths would stop at
EmailMatches(p, user_email) ==
    {j \in 1..Len(p.athletes.items) :
        /\ p.athletes.items[j].isdict
        /\ p.athletes.items[j].email.t = "str"
        /\ Lower(p.athletes.items[j].email.s) = user_email}
RegistrationMatches(p) ==
    {j \in 1..Len(p.signedUpUsers.items) :
        /\ p.signedUpUsers.items[j].isdict
        /\ p.signedUpUsers.items[j].schedule_registration_id = p.scheduleRegistrationId}
Least(S) == CHOOSE i \in S : \A j \in S : i <= j
NameOrAbsent(v) == IF v.t = "str" /\ v.s # "" THEN v ELSE Absent

\* the first name identity resolution gives an event for detail payload p
ResolvedName(p, user_email) ==
    IF user_email # ""
    THEN IF EmailMatches(p, user_email) = {} THEN Absent
         ELSE NameOrAbsent(p.athletes.items[Least(EmailMatches(p, user_email))].first_name)
    ELSE IF Truthy(p.scheduleRegistrationId) /\ RegistrationMatches(p) # {}
         THEN NameOrAbsent(p.signedUpUsers.items[Least(RegistrationMatches(p))].first_name)
         ELSE Absent

\* the enriched events of a published cycle: positions in refs whose detail
\* fetch returned a dict
Enriched(c) ==
    {i \in 1..Len(cyc[c].refs) : ~Skipped(CycleResults(c)[i])}

\* C28: on an enriched event the first name comes from the roster entry with
\* the account's email when the account has an email (and from nowhere when
\* no entry has it), from the roster entry with the payload's registration
\* id only when the account has no email, and is absent when neither matches
C28_IdentityResolution ==
    \A c \in Slots :
        cyc[c].outcome = "published" =>
            \A i \in Enriched(c) :
                RawEvents(cyc[c].d)[cyc[c].refs[i]].user_first_name
                    = ResolvedName(DetailPayloads[CycleResults(c)[i].res], Lower(username))

\* an account whose email is on no roster enriched an event from a payload
\* whose registration id a roster entry carries, and the event has no name
C28_Witness ==
    \E c \in Slots :
        /\ cyc[c].outcome = "published"
        /\ username = "Zed@Gym.nl"
        /\ \E i \in Enriched(c) :
              LET p == DetailPayloads[CycleResults(c)[i].res]
              IN  /\ Truthy(p.scheduleRegistrationId) /\ RegistrationMatches(p) # {}
                  /\ EmailMatches(p, Lower(username)) = {}
                  /\ RawEvents(cyc[c].d)[cyc[c].refs[i]].user_first_name = Absent

\* C29: a call that a transport failure ended, while connecting or while the
\* response was read, raises ConnectionError, and its SSL subtype for a
\* certificate or TLS failure; a call that a status ended raises the error
\* of that status
C29_TransportFailuresWrapped ==
    \A k \in ActCalls :
        calls[k].pc = "done" =>
            /\ calls[k].tf \in {"cert", "ssl"} => calls[k].err = SSLError
            /\ calls[k].tf \in {"conn", "timeout"} => calls[k].err = ConnError
            /\ calls[k].tf # "none" => calls[k].err # RawFault
            /\ (calls[k].tf = "none" /\ calls[k].st = 401) => calls[k].err = AuthError
            /\ (calls[k].tf = "none" /\ calls[k].st \notin {0, 200, 401})
                  => calls[k].err = ApiError
            /\ (calls[k].tf = "none" /\ calls[k].pst \in {401, 403})
                  => calls[k].err = AuthError

\* one call ended by a TLS failure while its 200 response was read, another
\* by a timeout before any response
C29_Witness ==
    \E j, k \in ActCalls :
        /\ calls[j].pc = "done" /\ calls[j].tf = "ssl" /\ calls[j].st = 200
        /\ calls[j].got = ReadFail /\ calls[j].err = SSLError
        /\ calls[k].pc = "done" /\ calls[k].tf = "timeout" /\ calls[k].st = 0
        /\ calls[k].err = ConnError

\* the calls of cycle slot c: its schedule fetch and its detail tasks
CycleCalls(c) == {SchedCall(c)} \cup {TaskCall(c, i) : i \in 1..MaxEvents}

\* C30: a cycle sends the schedule request at most once and the detail
\* request at most once per selected event, the selected events being
\* distinct and no task existing beyond them; a call that has ended sends
\* nothing more, and its slot sends again only when a new cycle starts
C30_NoRetryWithinCycle ==
    [][\A c \in Slots :
          /\ TimesRequested(calls'[SchedCall(c)], EndpointOf("schedule")) <= 1
          /\ \A i \in 1..MaxEvents :
                /\ TimesRequested(calls'[TaskCall(c, i)], EndpointOf("details")) <= 1
                /\ TimesRequested(calls'[TaskCall(c, i)], EndpointOf("schedule")) = 0
                /\ i > Len(cyc'[c].refs) => calls'[TaskCall(c, i)].pc = "free"
          /\ \A i, j \in 1..Len(cyc'[c].refs) :
                i # j => cyc'[c].refs[i] # cyc'[c].refs[j]
          /\ \A k \in CycleCalls(c) :
                (calls[k].pc = "done" /\ calls'[k] # calls[k])
                   => /\ cyc[c].pc = "done" /\ cyc'[c].pc = "fetch"
                      /\ refreshes' = refreshes + 1]_vars

\* a cycle whose detail request failed went on and ended without sending it
\* again, after a cycle whose schedule request had failed
C30_Witness ==
    \E c \in Slots :
        /\ cyc[c].pc = "done" /\ cyc[c].prev.valid
        /\ cyc[c].prev.serr # NoError
        /\ TimesRequested(calls[SchedCall(c)], EndpointOf("schedule")) = 1
        /\ \E i \in 1..Len(cyc[c].refs) :
              /\ calls[TaskCall(c, i)].pc = "done"
              /\ calls[TaskCall(c, i)].err # NoError
              /\ DetailRequests(c, i) = 1

\* two config entries that differ in their credentials and in nothing else
DifferOnlyInCredentials(a, b) ==
    /\ a.title = b.title /\ a.options = b.options
    /\ a.data.base_url = b.data.base_url /\ a.data.box = b.data.box
    /\ (a.data.username # b.data.username \/ a.data.password # b.data.password)

\* the strings of an export
ExportStrings(x) ==
    {x.entry.title, x.entry.data.base_url, x.entry.data.box, x.entry.data.username,
     x.entry.data.password, x.entry.options.display_name.s, x.client.base_url, x.client.box}

TaskOfEvent(c, e) ==
    IF \E i \in 1..Len(cyc[c].refs) : cyc[c].refs[i] = e
    THEN CHOOSE i \in 1..Len(cyc[c].refs) : cyc[c].refs[i] = e
    ELSE 0

\* C31: in a published cycle the event at each position is the fetched event
\* merged with the payload of the detail request issued for that position,
\* when that request returned a JSON object, and the fetched event unchanged
\* otherwise, whichever requests ended first and whichever failed
C31_MergedIntoOwnEvent ==
    \A c \in Slots :
        (cyc[c].outcome = "published" /\ cyc[c].d.events.kind = "list") =>
            \A e \in 1..Len(RawEvents(cyc[c].d)) :
                LET raw == FetchedEvents(c)[e]
                    i == TaskOfEvent(c, e)
                    call == calls[TaskCall(c, IF i = 0 THEN 1 ELSE i)]
                IN  RawEvents(cyc[c].d)[e] =
                        IF i # 0 /\ call.err = NoError /\ DetailPayloads[call.res].isdict
                        THEN MergeOne(raw, DetailPayloads[call.res], Lower(username))
                        ELSE raw

\* a published cycle with two detail requests of which the first failed and
\* the second returned a description: the second event has it, the first
\* event is as fetched
C31_Witness ==
    \E c \in Slots :
        /\ cyc[c].outcome = "published" /\ Len(cyc[c].refs) >= 2
        /\ calls[TaskCall(c, 1)].err # NoError
        /\ calls[TaskCall(c, 2)].err = NoError
        /\ DetailPayloads[calls[TaskCall(c, 2)].res].isdict
        /\ Truthy(DetailPayloads[calls[TaskCall(c, 2)].res].description)
        /\ RawEvents(cyc[c].d)[cyc[c].refs[2]].description
              = DetailPayloads[calls[TaskCall(c, 2)].res].description
        /\ RawEvents(cyc[c].d)[cyc[c].refs[1]] = FetchedEvents(c)[cyc[c].refs[1]]

\* an event whose start or end is missing, no string, or a string the
\* normalizer returns None for
Readable(d) == d.t = "str" /\ d.shape \in {"iso", "space"}
NullInstant(ev) == ev.isdict /\ (~Readable(ev.start) \/ ~Readable(ev.end))

\* the schedule without those events, and the position an event of the
\* schedule has in it
WithoutNullInstants(items) == SelectSeq(items, LAMBDA ev : ~NullInstant(ev))
PositionWithout(items, e) == Cardinality({j \in 1..e : ~NullInstant(items[j])})

\* C32: an event whose start or end the normalizer gives no instant for is
\* never selected for enrichment, the selection is the one the schedule
\* without such events would give, and a cycle ends published unless the
\* merge of a payload raised
C32_NullInstantsSkipped ==
    \A c \in Slots :
        Selected(c) =>
            /\ \A i \in 1..Len(cyc[c].refs) : ~NullInstant(FetchedEvents(c)[cyc[c].refs[i]])
            /\ [i \in 1..Len(cyc[c].refs) |-> PositionWithout(FetchedEvents(c), cyc[c].refs[i])]
                  = _build_detail_tasks(WithoutNullInstants(FetchedEvents(c)), cyc[c].now)
            /\ cyc[c].pc = "done" =>
                  \/ cyc[c].outcome = "published"
                  \/ \E i \in 1..Len(cyc[c].refs) :
                        /\ ~Skipped(CycleResults(c)[i])
                        /\ MergeRaises(DetailPayloads[CycleResults(c)[i].res], Lower(username))

\* a published cycle on a schedule with events without instants around a
\* subscribed event that was enriched
C32_Witness ==
    \E c \in Slots :
        /\ Selected(c) /\ cyc[c].outcome = "published"
        /\ \E e \in 1..Len(FetchedEvents(c)) :
              NullInstant(FetchedEvents(c)[e]) /\ SubscribedTrue(FetchedEvents(c)[e])
        /\ Len(cyc[c].refs) = 1
        /\ ~NullInstant(FetchedEvents(c)[cyc[c].refs[1]])
        /\ cyc[c].refs[1] > 1
        /\ calls[TaskCall(c, 1)].err = NoError

\* the calls of cycle c that are inside async_login
InLogin(c) ==
    {k \in CycleCalls(c) : calls[k].pc \in {"login_get", "login_post", "login_refresh"}}

\* the schedule fetch of cycle c has returned a schedule
ScheduleFetched(c) ==
    /\ cyc[c].pc \in {"gather", "done"}
    /\ calls[SchedCall(c)].pc = "done"
    /\ calls[SchedCall(c)].err = NoError

\* C33: in a cycle whose schedule fetch succeeded no detail fetch has run or
\* runs async_login, and at no time are two calls of one cycle inside
\* async_login
C33_NoLoginInDetailTasks ==
    \A c \in Slots :
        /\ ScheduleFetched(c) =>
              \A i \in 1..MaxEvents :
                  /\ calls[TaskCall(c, i)].logins = 0
                  /\ TaskCall(c, i) \notin InLogin(c)
        /\ Cardinality(InLogin(c)) <= 1

\* a cycle whose schedule fetch logged in and succeeded, with two detail
\* requests in flight at once, while the schedule fetch of an overlapping
\* cycle is inside async_login
C33_Witness ==
    \E c \in Slots, o \in Slots :
        /\ o # c
        /\ ScheduleFetched(c)
        /\ calls[SchedCall(c)].logins = 1
        /\ Cardinality({i \in 1..Len(cyc[c].refs) : calls[TaskCall(c, i)].pc = "endpoint"}) >= 2
        /\ SchedCall(o) \in InLogin(o)

\* the payload of cycle c holds, for every event, the fetched event merged
\* with what its detail request returned
CompletePayload(c) ==
    cyc[c].d.events.kind = "list" =>
        \A e \in 1..Len(RawEvents(cyc[c].d)) :
            LET raw == FetchedEvents(c)[e]
                i == TaskOfEvent(c, e)
                call == calls[TaskCall(c, IF i = 0 THEN 1 ELSE i)]
            IN  RawEvents(cyc[c].d)[e] =
                    IF i # 0 /\ call.err = NoError /\ DetailPayloads[call.res].isdict
                    THEN MergeOne(raw, DetailPayloads[call.res], Lower(username))
                    ELSE raw

\* C34: coordinator.data changes only in the step that ends a cycle as
\* published, and then to the complete payload of that cycle; every other
\* step, the start of a cycle, the answer to a detail request and a render
\* among them, leaves it as it was
C34_PublishedSnapshotNotMutated ==
    [][data' # data =>
          \E c \in Slots :
              /\ cyc[c].pc \in {"fetch", "gather"}
              /\ cyc'[c].pc = "done"
              /\ cyc'[c].outcome = "published"
              /\ data' = cyc'[c].d
              /\ CompletePayload(c)']_vars

\* a render while the second cycle is in flight: the coordinator holds the
\* schedule the first cycle published, a detail request of the second cycle
\* has returned a description, and the event it is for has another one in
\* the coordinator
C34_Witness ==
    \E c \in Slots, i \in 1..MaxEvents :
        /\ shown.view # "none"
        /\ data.isdict /\ data.events.kind = "list"
        /\ cyc[c].pc = "gather"
        /\ i <= Len(cyc[c].refs)
        /\ calls[TaskCall(c, i)].pc = "done"
        /\ calls[TaskCall(c, i)].err = NoError
        /\ DetailPayloads[calls[TaskCall(c, i)].res].isdict
        /\ Truthy(DetailPayloads[calls[TaskCall(c, i)].res].description)
        /\ cyc[c].refs[i] <= Len(RawEvents(data))
        /\ RawEvents(data)[cyc[c].refs[i]].description
              # DetailPayloads[calls[TaskCall(c, i)].res].description

\* call k is not running: free, ended, or a task that waits for its permit
NotRunning(call) == call.pc \in {"free", "done", "sem_wait"}

\* C35: a step in which async_login fails (login page not 200 or without a
\* token, credentials POST rejected, transport failure) leaves _logged_in
\* False, whether or not a token of the login page is stored; and an
\* operation that starts while _logged_in is False begins with the GET of
\* the login page and sends no request with the stored token
C35_FailedLoginStaysLoggedOut ==
    [][\A k \in CallIds :
          /\ (calls[k].login # "failed" /\ calls'[k].login = "failed") =>
                /\ ~logged_in'
                /\ calls'[k].pc = "done" /\ calls'[k].err # NoError
                /\ TimesRequested(calls'[k], EndpointOf(calls'[k].op)) = 0
          /\ (NotRunning(calls[k]) /\ ~NotRunning(calls'[k]) /\ ~logged_in) =>
                /\ calls'[k].pc = "login_get"
                /\ calls'[k].reqs = <<"GET login">>]_vars

\* the schedule fetch of the second cycle is at the GET of the login page
\* although a login page token is stored: the login of the first cycle failed
\* after its login page
C35_Witness ==
    \E c \in Slots :
        /\ refreshes = 2
        /\ ~logged_in
        /\ csrf_token # NoToken
        /\ calls[SchedCall(c)].pc = "login_get"
        /\ calls[SchedCall(c)].logins = 1

\* C36: every cycle that has started ends, published or failed, each of
\* its detail tasks having got its permit, sent a request and ended
C36_EveryCycleTerminates ==
    \A c \in Slots :
        (cyc[c].pc \in {"fetch", "gather"}) ~>
            /\ cyc[c].pc = "done"
            /\ cyc[c].outcome \in {"published", "failed", "reauth", "fault"}
            /\ \A i \in 1..Len(cyc[c].refs) :
                  calls[TaskCall(c, i)].pc = "done" /\ calls[TaskCall(c, i)].reqs # <<>>

\* more detail tasks than permits: every permit is taken, a task waits,
\* and a task has ended with an error
C36_Witness ==
    /\ sem_value = 0
    /\ \E k \in TaskCalls : calls[k].pc = "sem_wait"
    /\ \E k \in TaskCalls : calls[k].pc = "done" /\ calls[k].err # NoError

\* the events of the Schedule that are subscribed (the boolean true) and
\* start at or after the instant now
UpcomingSubscribed(d, now) ==
    {i \in 1..Len(ViewEvents(d)) :
        /\ SubscribedTrue(ViewEvents(d)[i])
        /\ ViewEvents(d)[i].start.t = "str"
        /\ view_datetime(ViewEvents(d)[i].start) # NoneDt
        /\ view_datetime(ViewEvents(d)[i].start) >= now}

\* C37: the setup of the sensor platform gives one lesson sensor per
\* subscribed event that starts at or after the setup instant, bound to
\* that event's key, and does not fail; a lesson sensor whose key no event
\* of the cached Schedule has reports no value and empty attributes
C37_LessonSensorsFromSubscribed ==
    /\ shown.view = "setup" =>
          /\ ~shown.raised
          /\ Len(shown.out) = Cardinality(UpcomingSubscribed(data, shown.now))
          /\ {shown.out[i] : i \in 1..Len(shown.out)}
                = {LessonKey(ViewEvents(data)[i]) : i \in UpcomingSubscribed(data, shown.now)}
    /\ (shown.view = "lesson_value" /\ _get_event(data, shown.event_key) = 0) =>
          ~shown.raised /\ shown.out = NoneDt
    /\ (shown.view = "lesson_attributes" /\ _get_event(data, shown.event_key) = 0) =>
          ~shown.raised /\ shown.out = NoAttributes

\* C38: the entities of an entry carry the display name stored in the
\* entry's options, entered in the setup flow or in the options flow; the
\* name derived from the username is used only when the options hold none
C38_OverrideIsTheDisplayName ==
    shown.view = "names" =>
        LET stored == shown.entry.options.display_name
            expected == IF stored.t = "str" THEN stored.s
                        ELSE TitledUserPart(shown.entry.data.username)
        IN  /\ shown.out.calendar = expected
            /\ shown.out.sensor = expected

====
